---- MODULE Spec2Model ----
(***************************************************************************)
(* The rate resolution pipeline of the currency converter:                 *)
(*   cache (Redis) -> aggregation over three providers -> history (SQL).   *)
(*                                                                         *)
(* Representation of values                                                *)
(*   - a string is a TLA+ string;                                          *)
(*   - an optional value (a JavaScript value that may be undefined, a      *)
(*     nullable return) is a sequence of length 0 or 1: None, Some(v);     *)
(*   - an instant is an integer number of milliseconds, the resolution of  *)
(*     Date; the ISO-8601 text toISOString() makes of an instant is        *)
(*     written as the instant itself (the format is one-to-one);           *)
(*   - a rate in the program is a JavaScript number, an IEEE 754 binary64  *)
(*     value (sign, mantissa, exponent); the sum and the mean of rates,    *)
(*     and the product of an amount and a rate, are rounded as binary64    *)
(*     arithmetic rounds them;                                             *)
(*   - a rate in the column exchange_rates.rate DECIMAL(20, 10), and the   *)
(*     decimal a number is written from, is an integer number of ticks,    *)
(*     Quantum ticks being one unit of the last decimal place that the     *)
(*     column keeps.                                                       *)
(***************************************************************************)
EXTENDS Integers, Sequences, FiniteSets, TLC

(***************************************************************************)
(* Bounds of the model.                                                    *)
(***************************************************************************)
\* getExchangeRate calls started in one behaviour
MaxCalls == 3
\* advances of the clock in one behaviour
MaxTicks == 1
\* lives of a cache entry the clock runs through where entries expire
MaxLives == 2
\* the greatest amount converted, in thousandths
MaxAmount == 150
\* getExchangeRate calls in a behaviour of the service
MaxServiceCalls == 2
\* clearAllCache calls in one behaviour
MaxClears == 1

\* Redis objects, and Pool objects, made in one behaviour
MaxInstances == 2

(***************************************************************************)
(* Program constants.                                                      *)
(***************************************************************************)
\* config.cache.ttlSeconds: parseInt(process.env.CACHE_TTL_SECONDS || "300")
ttlSeconds == 300
\* rate DECIMAL(20, 10): ticks per unit of the 10th decimal place
Quantum == 1

None == << >>
Some(v) == << v >>
IsSome(o) == Len(o) = 1
Get(o) == o[1]

(***************************************************************************)
(* String.prototype.toUpperCase, on the letters of currency codes.         *)
(***************************************************************************)
LowerLetters == "abcdefghijklmnopqrstuvwxyz"
UpperLetters == "ABCDEFGHIJKLMNOPQRSTUVWXYZ"

UpperChar(c) ==
  IF \E i \in 1..Len(LowerLetters) : SubSeq(LowerLetters, i, i) = c
  THEN LET i == CHOOSE j \in 1..Len(LowerLetters) : SubSeq(LowerLetters, j, j) = c
       IN  SubSeq(UpperLetters, i, i)
  ELSE c

RECURSIVE UpperCased(_)
UpperCased(s) ==
  IF Len(s) = 0 THEN ""
  ELSE UpperChar(SubSeq(s, 1, 1)) \o UpperCased(SubSeq(s, 2, Len(s)))

\* the currency codes the model's calls and replies carry, in every letter
\* case they come in, and their upper-casing, computed once
CodeTexts == {"usd", "eur", "USD", "EUR", "Usd", ""}
UpperCaseOf == [s \in CodeTexts |-> UpperCased(s)]

toUpperCase(s) == UpperCaseOf[s]

\* magnitude and sign of an integer
Abs(n) == IF n < 0 THEN -n ELSE n
Sign(n) == IF n < 0 THEN -1 ELSE 1

(***************************************************************************)
(* JavaScript numbers: IEEE 754 binary64.  A number is sign * m * 2^e with *)
(* m a natural number of MantissaBits binary digits and e an integer       *)
(* exponent, or zero (sign 1, m 0, e 0); subnormals, infinities, NaN and   *)
(* a zero with a minus sign do not arise for the amounts and rates here.   *)
(* m runs past the 32 bits of TLC's integers, so a                         *)
(* natural number is written as Width digits to the base 2^LimbBits, the   *)
(* least significant first: room for an integer of 31 bits times           *)
(* 2^(2 * MantissaBits).                                                   *)
(***************************************************************************)
\* F(x), x being evaluated before F is applied to it (an operator is
\* otherwise given its arguments unevaluated, and a chain of operations is
\* evaluated one inside the other)
Then(x, F(_)) == CHOOSE y \in {F(v) : v \in {x}} : TRUE

MantissaBits == 53
LimbBits == 14
Limb == 2 ^ LimbBits
Width == 10

\* the digits F(1), ..., F(Width)
Wide(F(_)) == <<F(1), F(2), F(3), F(4), F(5), F(6), F(7), F(8), F(9), F(10)>>

\* digit i of N, zero outside the Width digits
At(N, i) == IF i \in 1..Width THEN N[i] ELSE 0

\* a natural below 2^31 as digits, and back
BigFromInt(n) ==
  Wide(LAMBDA i : IF i = 1 THEN n % Limb
                  ELSE IF i = 2 THEN (n \div Limb) % Limb
                  ELSE IF i = 3 THEN n \div (Limb * Limb)
                  ELSE 0)

BigToInt(N) == N[1] + Limb * N[2] + Limb * Limb * N[3]

\* the digits of the number whose digit i is C[i] before carrying: each digit
\* takes the carry of the digit below it
Carried(C) ==
  LET t1 == C[1]
      t2 == C[2] + (t1 \div Limb)
      t3 == C[3] + (t2 \div Limb)
      t4 == C[4] + (t3 \div Limb)
      t5 == C[5] + (t4 \div Limb)
      t6 == C[6] + (t5 \div Limb)
      t7 == C[7] + (t6 \div Limb)
      t8 == C[8] + (t7 \div Limb)
      t9 == C[9] + (t8 \div Limb)
      t10 == C[10] + (t9 \div Limb)
  IN  <<t1 % Limb, t2 % Limb, t3 % Limb, t4 % Limb, t5 % Limb,
        t6 % Limb, t7 % Limb, t8 % Limb, t9 % Limb, t10 % Limb>>

\* N + M
BigAdd(N, M) == Carried(Wide(LAMBDA i : N[i] + M[i]))

\* N - M, for N >= M
BigSub(N, M) == Carried(Wide(LAMBDA i : N[i] - M[i]))

\* N < M
BigLess(N, M) ==
  \E i \in 1..Width : N[i] < M[i] /\ \A j \in (i + 1)..Width : N[j] = M[j]

\* N * M, for N below 2^(4 * LimbBits)
BigMul(N, M) ==
  Carried(Wide(LAMBDA k : N[1] * At(M, k) + N[2] * At(M, k - 1)
                          + N[3] * At(M, k - 2) + N[4] * At(M, k - 3)))

\* quotient and remainder of N by a natural d below 2^17: long division,
\* from the most significant digit down
BigDivRem(N, d) ==
  LET t10 == N[10]
      t9 == (t10 % d) * Limb + N[9]
      t8 == (t9 % d) * Limb + N[8]
      t7 == (t8 % d) * Limb + N[7]
      t6 == (t7 % d) * Limb + N[6]
      t5 == (t6 % d) * Limb + N[5]
      t4 == (t5 % d) * Limb + N[4]
      t3 == (t4 % d) * Limb + N[3]
      t2 == (t3 % d) * Limb + N[2]
      t1 == (t2 % d) * Limb + N[1]
      down == <<t10 \div d, t9 \div d, t8 \div d, t7 \div d, t6 \div d,
                t5 \div d, t4 \div d, t3 \div d, t2 \div d, t1 \div d>>
  IN  [q |-> Wide(LAMBDA i : down[Width + 1 - i]), r |-> t1 % d]

\* N * 2^k
BigShiftLeft(N, k) ==
  Wide(LAMBDA i : ((At(N, i - (k \div LimbBits)) * (2 ^ (k % LimbBits))) % Limb)
                  + (At(N, i - (k \div LimbBits) - 1) \div (2 ^ (LimbBits - (k % LimbBits)))))

\* floor(N / 2^k), and whether a remainder was dropped (or `sticky` already)
BigShiftRight(N, k, sticky) ==
  [q |-> Wide(LAMBDA i : (At(N, i + (k \div LimbBits)) \div (2 ^ (k % LimbBits)))
                         + ((At(N, i + (k \div LimbBits) + 1) % (2 ^ (k % LimbBits)))
                            * (2 ^ (LimbBits - (k % LimbBits))))),
   sticky |-> \/ sticky
              \/ \E i \in 1..(k \div LimbBits) : At(N, i) # 0
              \/ (At(N, (k \div LimbBits) + 1) % (2 ^ (k % LimbBits))) # 0]

\* the number of binary digits of a digit
SmallBits(n) == CHOOSE b \in 0..LimbBits : n < 2 ^ b /\ (b = 0 \/ n >= 2 ^ (b - 1))

\* the number of binary digits of N
BigBits(N) ==
  IF \A i \in 1..Width : N[i] = 0 THEN 0
  ELSE LET top == CHOOSE i \in 1..Width : N[i] # 0 /\ \A j \in (i + 1)..Width : N[j] = 0
       IN  LimbBits * (top - 1) + SmallBits(N[top])

Double(sign, m, e) == [sign |-> sign, m |-> m, e |-> e]

Zero == Double(1, BigFromInt(0), 0)

\* the number sign * N * 2^e, for N of at most MantissaBits + 1 binary
\* digits and a multiple of 2 if it has that many
Normal(sign, N, e) ==
  LET bits == BigBits(N)
  IN  IF bits = 0 THEN Zero
      ELSE IF bits > MantissaBits
      THEN Double(sign, BigShiftRight(N, 1, FALSE).q, e + 1)
      ELSE Double(sign, BigShiftLeft(N, MantissaBits - bits), e - (MantissaBits - bits))

\* the binary64 nearest to sign * (N + f) * 2^e, where 0 <= f < 1 and f # 0
\* exactly when `sticky`: round to nearest, ties to even
RoundToDouble(sign, N, e, sticky) ==
  LET drop == BigBits(N) - (MantissaBits + 1)
  IN  IF drop < 0 THEN Normal(sign, N, e)
      ELSE LET kept == BigShiftRight(N, drop, sticky)
               half == BigShiftRight(kept.q, 1, FALSE)
               odd == (half.q[1] % 2) = 1
               up == half.sticky /\ (kept.sticky \/ odd)
           IN  Normal(sign, IF up THEN BigAdd(half.q, BigFromInt(1)) ELSE half.q,
                      e + drop + 1)

\* N / 10^d for a natural N, and whether a remainder was dropped
RECURSIVE BigDivPow10(_, _, _)
BigDivPow10(N, d, sticky) ==
  IF d = 0 THEN [q |-> N, sticky |-> sticky]
  ELSE LET step == IF d >= 4 THEN 4 ELSE d
           h == BigDivRem(N, 10 ^ step)
       IN  BigDivPow10(h.q, d - step, sticky \/ h.r # 0)

\* the number that the decimal literal n / 10^d denotes (n an integer)
FromDecimal(n, d) ==
  Then(BigDivPow10(BigShiftLeft(BigFromInt(Abs(n)), 2 * MantissaBits), d, FALSE),
       LAMBDA scaled :
         RoundToDouble(Sign(n), scaled.q, -(2 * MantissaBits), scaled.sticky))

\* the number nearest to a rate of `ticks` ticks, Quantum * 10^10 ticks
\* making 1
FromTicks(ticks) ==
  Then(BigDivRem(BigShiftLeft(BigFromInt(Abs(ticks)), 2 * MantissaBits), Quantum),
       LAMBDA part :
         Then(BigDivPow10(part.q, 10, part.r # 0),
              LAMBDA scaled :
                RoundToDouble(Sign(ticks), scaled.q, -(2 * MantissaBits), scaled.sticky)))

\* x * y
FloatTimes(x, y) ==
  Then(<<x, y>>,
       LAMBDA f :
         Then(BigMul(f[1].m, f[2].m),
              LAMBDA N : RoundToDouble(f[1].sign * f[2].sign, N, f[1].e + f[2].e, FALSE)))

\* x + y; a number 2^60 times smaller than the other changes nothing
FloatPlus(x, y) ==
  LET Sum(f) ==
        LET low == IF f[1].e < f[2].e THEN f[1].e ELSE f[2].e
            Signed(N) ==
              IF f[1].sign = f[2].sign
              THEN RoundToDouble(f[1].sign, BigAdd(N[1], N[2]), low, FALSE)
              ELSE IF BigLess(N[1], N[2])
              THEN RoundToDouble(f[2].sign, BigSub(N[2], N[1]), low, FALSE)
              ELSE RoundToDouble(f[1].sign, BigSub(N[1], N[2]), low, FALSE)
        IN  IF f[1] = Zero THEN f[2]
            ELSE IF f[2] = Zero THEN f[1]
            ELSE IF f[2].e - f[1].e > 60 THEN f[2]
            ELSE IF f[1].e - f[2].e > 60 THEN f[1]
            ELSE Then(<<BigShiftLeft(f[1].m, f[1].e - low),
                        BigShiftLeft(f[2].m, f[2].e - low)>>, Signed)
  IN  Then(<<x, y>>, Sum)

\* x / n, for a natural n from 1 to 2^17
FloatOver(x, n) ==
  LET Quotient(f) ==
        IF f = Zero THEN Zero
        ELSE Then(BigDivRem(BigShiftLeft(f.m, MantissaBits + 3), n),
                  LAMBDA part :
                    RoundToDouble(f.sign, part.q, f.e - (MantissaBits + 3), part.r # 0))
  IN  Then(x, Quotient)

\* Math.round(x): the integer nearest to x, the greater of two equally near;
\* a number below a half in magnitude has fewer binary digits than -e - 1
MathRound(x) ==
  LET Rounded(f) ==
        IF f.e >= 0 THEN f.sign * BigToInt(BigShiftLeft(f.m, f.e))
        ELSE IF BigBits(f.m) < (-f.e) - 1 THEN 0
        ELSE Then(BigAdd(f.m, BigShiftLeft(BigFromInt(1), (-f.e) - 1)),
                  LAMBDA sum :
                    LET up == BigShiftRight(sum, -f.e, FALSE)
                    IN  IF f.sign > 0 THEN BigToInt(up.q)
                        ELSE IF up.sticky THEN -BigToInt(up.q)
                        ELSE -(BigToInt(up.q) - 1))
  IN  Then(x, Rounded)

\* const convertedAmount = amount * rateResult.rate;
\* Math.round(convertedAmount * 100): the converted amount in hundredths
RoundedHundredths(amount, rate) ==
  Then(FloatTimes(amount, rate),
       LAMBDA convertedAmount : MathRound(FloatTimes(convertedAmount, FromDecimal(100, 0))))

(***************************************************************************)
(* The rate column: DECIMAL(20, 10) keeps ten decimal places.  The driver  *)
(* sends the number as the text String(rate), the shortest decimal that    *)
(* reads back as the number; the column rounds that decimal to the nearest *)
(* unit of its last place (ties away from zero); parseFloat reads the kept *)
(* value back.  A kept value is written as its number of ticks.            *)
(***************************************************************************)
\* floor(2 * |x| * 10^10), and whether a remainder was dropped, for a rate
\* x below 2^30 / 10^10 in magnitude
HalfUnits(x) ==
  IF x = Zero THEN [q |-> BigFromInt(0), sticky |-> FALSE]
  ELSE Then(BigMul(BigFromInt(10 ^ 5), BigMul(BigFromInt(10 ^ 5), x.m)),
            LAMBDA scaled : BigShiftRight(scaled, (-x.e) - 1, FALSE))

\* a column that drops the decimals it does not keep: String(x) is a whole
\* number of units exactly when x is the number nearest to that decimal
TruncateToQuantum(rate) ==
  LET Kept(x) ==
        Then(BigToInt(HalfUnits(x).q) \div 2,
             LAMBDA below :
               x.sign * Quantum
                 * (IF FromDecimal(below + 1, 10) = Double(1, x.m, x.e) THEN below + 1
                    ELSE below))
  IN  Then(rate, Kept)

\* String(x) is half-way between two units exactly when x is the number
\* nearest to that decimal: no shorter decimal reads back as x
RoundToQuantum(rate) ==
  LET Kept(x) ==
        Then(BigToInt(HalfUnits(x).q),
             LAMBDA twice :
               x.sign * Quantum
                 * (IF twice % 2 = 1 THEN (twice \div 2) + 1
                    ELSE IF FromDecimal(10 * (twice \div 2) + 5, 11) = Double(1, x.m, x.e)
                    THEN (twice \div 2) + 1
                    ELSE twice \div 2))
  IN  Then(rate, Kept)

(***************************************************************************)
(* Provider replies: what axios.get yields for one provider request.       *)
(*   http     "ok" for a 2xx answer; every other value makes axios throw   *)
(*   success  FixerResponse.success                                        *)
(*   hasRates whether the payload holds the rates / data object at all     *)
(*   code     the one currency code the rates object has an entry for      *)
(*   value    the number under that entry, as JSON.parse read it (None:    *)
(*            the field is missing)                                        *)
(*   stamp    FixerResponse.timestamp (seconds) or the instant that        *)
(*            FrankfurterResponse.date parses to; None when absent or      *)
(*            unparsable                                                   *)
(***************************************************************************)
Providers == <<"fixer", "frankfurter", "currencyapi">>
ProviderNames == {Providers[i] : i \in 1..Len(Providers)}

HttpFailures == {"networkError", "timeout", "badStatus"}
ReplyStamps == {None, Some(1)}

Reply(h, s, hr, c, v, st) ==
  [http |-> h, success |-> s, hasRates |-> hr, code |-> c, value |-> v, stamp |-> st]

FailedReplies == {Reply(h, FALSE, FALSE, "", None, None) : h \in HttpFailures}

\* the entries a rates object may hold: one of `codes` with one of the
\* numbers `rates`, or with no number
RateEntries(codes, rates) ==
  {<<c, v>> : c \in codes, v \in {Some(r) : r \in rates} \cup {None}}

FixerReplies(codes, rates) ==
  FailedReplies
  \cup {Reply("ok", s, FALSE, "", None, st) : s \in BOOLEAN, st \in ReplyStamps}
  \cup {Reply("ok", s, TRUE, e[1], e[2], st) :
          s \in BOOLEAN, e \in RateEntries(codes, rates), st \in ReplyStamps}

FrankfurterReplies(codes, rates) ==
  FailedReplies
  \cup {Reply("ok", TRUE, FALSE, "", None, st) : st \in ReplyStamps}
  \cup {Reply("ok", TRUE, TRUE, e[1], e[2], st) :
          e \in RateEntries(codes, rates), st \in ReplyStamps}

CurrencyAPIReplies(codes, rates) ==
  FailedReplies
  \cup {Reply("ok", TRUE, FALSE, "", None, None)}
  \cup {Reply("ok", TRUE, TRUE, e[1], e[2], None) : e \in RateEntries(codes, rates)}

\* what the providers answer while the resolver runs: fixer quotes EUR and
\* USD at 1 unit of the last decimal place kept, frankfurter and currencyapi
\* quote EUR at 2 units, currencyapi at times with a minus sign; any of them
\* may quote 0 or leave the number out
RepliesOf(p) ==
  CASE p = "fixer" -> FixerReplies({"EUR", "USD"}, {Zero, FromTicks(Quantum)})
    [] p = "frankfurter" -> FrankfurterReplies({"EUR"}, {Zero, FromTicks(2 * Quantum)})
    [] p = "currencyapi" ->
         CurrencyAPIReplies({"EUR"}, {Zero, FromTicks(2 * Quantum), FromTicks(-2 * Quantum)})

(***************************************************************************)
(* ExternalAPIResponse {success, rate, source, timestamp?}                 *)
(***************************************************************************)
ApiResponse(ok, r, src, ts) ==
  [success |-> ok, rate |-> r, source |-> src, timestamp |-> ts]

\* the outcome of a try body: a returned value or a thrown error
Returned(v) == [threw |-> FALSE, value |-> v]
Thrown == [threw |-> TRUE, value |-> ApiResponse(FALSE, Zero, "", None)]

\* an entry of Promise.allSettled's result
Fulfilled(v) == [status |-> "fulfilled", value |-> v]
Rejected == [status |-> "rejected", value |-> ApiResponse(FALSE, Zero, "", None)]

\* response.data.rates[targetCurrency.toUpperCase()]
RateLookup(reply, targetCurrency) ==
  IF reply.code = toUpperCase(targetCurrency) THEN reply.value ELSE None

\* !rate, for a number or undefined
Falsy(o) == ~IsSome(o) \/ Get(o) = Zero

\* the try block of fetchFromFixer
FixerTry(targetCurrency, reply) ==
  IF reply.http # "ok" THEN Thrown
  ELSE IF ~reply.success THEN Thrown
  ELSE IF ~reply.hasRates THEN Thrown
  ELSE IF Falsy(RateLookup(reply, targetCurrency)) THEN Thrown
  ELSE IF ~IsSome(reply.stamp) THEN Thrown
  ELSE Returned(ApiResponse(TRUE, Get(RateLookup(reply, targetCurrency)), "fixer",
                            Some(Get(reply.stamp) * 1000)))

\* the try block of fetchFromFrankfurter
FrankfurterTry(targetCurrency, reply) ==
  IF reply.http # "ok" THEN Thrown
  ELSE IF ~reply.hasRates THEN Thrown
  ELSE IF Falsy(RateLookup(reply, targetCurrency)) THEN Thrown
  ELSE IF ~IsSome(reply.stamp) THEN Thrown
  ELSE Returned(ApiResponse(TRUE, Get(RateLookup(reply, targetCurrency)), "frankfurter",
                            Some(Get(reply.stamp))))

\* the try block of fetchFromCurrencyAPI
CurrencyAPITry(targetCurrency, reply) ==
  IF reply.http # "ok" THEN Thrown
  ELSE IF ~reply.hasRates THEN Thrown
  ELSE IF Falsy(RateLookup(reply, targetCurrency)) THEN Thrown
  ELSE Returned(ApiResponse(TRUE, Get(RateLookup(reply, targetCurrency)), "currencyapi",
                            None))

\* a catch that lets the error through: the promise is rejected
CatchNothing(tried, src) ==
  IF tried.threw THEN Rejected ELSE Fulfilled(tried.value)

\* try { ... } catch (error) { return {success: false, rate: 0, source} }
CatchAll(tried, src) ==
  IF tried.threw THEN Fulfilled(ApiResponse(FALSE, Zero, src, None))
  ELSE Fulfilled(tried.value)

fetchFromFixer(targetCurrency, reply) ==
  CatchAll(FixerTry(targetCurrency, reply), "fixer")

fetchFromFrankfurter(targetCurrency, reply) ==
  CatchAll(FrankfurterTry(targetCurrency, reply), "frankfurter")

fetchFromCurrencyAPI(targetCurrency, reply) ==
  CatchAll(CurrencyAPITry(targetCurrency, reply), "currencyapi")

\* the settlement of provider p's promise, given the provider's reply
fetchFrom(p, targetCurrency, reply) ==
  CASE p = "fixer" -> fetchFromFixer(targetCurrency, reply)
    [] p = "frankfurter" -> fetchFromFrankfurter(targetCurrency, reply)
    [] p = "currencyapi" -> fetchFromCurrencyAPI(targetCurrency, reply)

(***************************************************************************)
(* ExternalAPIService.fetchRateWithAggregation, from the three settlements *)
(* Promise.allSettled hands back (in the order of the array it was given)  *)
(* and the clock.                                                          *)
(***************************************************************************)
\* a collection that a failed provider empties
PushOrAbort(results, x) ==
  IF x.status = "fulfilled" /\ x.value.success THEN Append(results, x.value) ELSE << >>

\* if (x.status === "fulfilled" && x.value.success) successfulResults.push(x.value)
PushIfSuccessful(results, x) ==
  IF x.status = "fulfilled" /\ x.value.success THEN Append(results, x.value) ELSE results

successfulResults(fixerResult, openExchangeResult, currencyApiResult) ==
  PushIfSuccessful(
    PushIfSuccessful(
      PushIfSuccessful(<< >>, fixerResult),
      openExchangeResult),
    currencyApiResult)

\* results.reduce((sum, result) => sum + result.rate, 0): the results are
\* added to 0 from the first to the last, each sum the nearest number
RECURSIVE SumRates(_)
SumRates(results) ==
  IF Len(results) = 0 THEN Zero
  ELSE FloatPlus(SumRates(SubSeq(results, 1, Len(results) - 1)), results[Len(results)].rate)

\* results.map((r) => r.source).join(sep)
RECURSIVE JoinSources(_, _)
JoinSources(results, sep) ==
  IF Len(results) = 0 THEN ""
  ELSE IF Len(results) = 1 THEN results[1].source
  ELSE results[1].source \o sep \o JoinSources(Tail(results), sep)

\* the rate of the first result, for the mean
firstRate(results) == results[1].rate
\* a mean over the three providers, whatever the number of results
averageOfThree(results) == FloatOver(SumRates(results), Len(Providers))

\* the rates the provider replies of the specifications below carry, in
\* units of the last decimal place kept
ReplyRates == {FromTicks(units * Quantum) : units \in {-2, -1, 1, 2, 110, 112, 114}}

\* sum / length of every list of one to three of these rates, worked out once
AverageRates ==
  [rates \in {<<a>> : a \in ReplyRates}
              \cup {<<a, b>> : a \in ReplyRates, b \in ReplyRates}
              \cup {<<a, b, c>> : a \in ReplyRates, b \in ReplyRates, c \in ReplyRates} |->
     FloatOver(SumRates([i \in DOMAIN rates |-> [rate |-> rates[i]]]), Len(rates))]

\* sum / length: the number nearest to the quotient
averageRate(results) ==
  LET rates == [i \in DOMAIN results |-> results[i].rate]
  IN  IF rates \in DOMAIN AverageRates
      THEN AverageRates[rates]
      ELSE FloatOver(SumRates(results), Len(results))

\* an aggregation that succeeds only when all three providers did
AggregateUnanimous(results, clock) ==
  IF Len(results) < Len(Providers)
  THEN ApiResponse(FALSE, Zero, "none", None)
  ELSE ApiResponse(TRUE, averageRate(results),
                   "aggregated(" \o JoinSources(results, "+") \o ")", Some(clock))

\* an aggregation that, with no success, passes on a provider's failure
AggregateOrLastFailure(results, clock) ==
  IF Len(results) = 0
  THEN ApiResponse(FALSE, Zero, Providers[Len(Providers)], None)
  ELSE ApiResponse(TRUE, averageRate(results),
                   "aggregated(" \o JoinSources(results, "+") \o ")", Some(clock))

Aggregate(results, clock) ==
  IF Len(results) = 0
  THEN ApiResponse(FALSE, Zero, "none", None)
  ELSE ApiResponse(TRUE, averageRate(results),
                   "aggregated(" \o JoinSources(results, "+") \o ")", Some(clock))

fetchRateWithAggregation(settlements, clock) ==
  Aggregate(successfulResults(settlements["fixer"], settlements["frankfurter"],
                              settlements["currencyapi"]), clock)

(***************************************************************************)
(* Records of the two stores and of the resolver.                          *)
(***************************************************************************)
\* CacheService.getCacheKey
getCacheKey(base, target) ==
  "rate:" \o toUpperCase(base) \o ":" \o toUpperCase(target)

\* CachedRate
CachedRate(b, t, r, src, ts) ==
  [baseCurrency |-> b, targetCurrency |-> t, rate |-> r, source |-> src, timestamp |-> ts]

\* JSON.stringify of a CachedRate: the text is written as the list of its
\* five members in order; JSON.parse reads the members back by name
JSONstringify(d) == <<d.baseCurrency, d.targetCurrency, d.rate, d.source, d.timestamp>>
\* a parse that loses the timestamp member
JSONparseDateless(text) == CachedRate(text[1], text[2], text[3], text[4], 0)
JSONparse(text) == CachedRate(text[1], text[2], text[3], text[4], text[5])

\* a row of exchange_rates, without its serial id (no code reads it)
ExchangeRate(b, t, r, src, at) ==
  [baseCurrency |-> b, targetCurrency |-> t, rate |-> r, source |-> src, createdAt |-> at]

\* ConversionResult, as getExchangeRate returns it
Quote(b, t, r, src, ts, fc) ==
  [baseCurrency |-> b, targetCurrency |-> t, rate |-> r, source |-> src,
   timestamp |-> ts, fromCache |-> fc]

NoQuote == Quote("", "", Zero, "", 0, FALSE)

\* what a call ended with: nothing yet, a returned Quote, or a thrown Error
Pending == [kind |-> "pending", quote |-> NoQuote, message |-> ""]
Return(q) == [kind |-> "quote", quote |-> q, message |-> ""]
Throw(msg) == [kind |-> "error", quote |-> NoQuote, message |-> msg]

\* new Error(`Unable to fetch exchange rate for ${base} -> ${target}`)
ResolutionFailure(base, target) ==
  "Unable to fetch exchange rate for " \o base \o " → " \o target

\* the error a Redis command or getRedisClient() throws
CacheStoreError == "cache store error"
\* the error query() or the statement throws
HistoryStoreError == "history store error"
\* the error of an INSERT that the constraint unique_rate_record rejects
DuplicateKeyError == "duplicate key value violates unique constraint"

\* what convertCurrency returns: { ...rateResult, amount, convertedAmount }.
\* Amounts are decimal numbers given in thousandths, converted amounts are
\* in hundredths (Math.round(x * 100) / 100 is a whole number of hundredths).
Conversion(q, amount, cents) ==
  [baseCurrency |-> q.baseCurrency, targetCurrency |-> q.targetCurrency, rate |-> q.rate,
   source |-> q.source, timestamp |-> q.timestamp, fromCache |-> q.fromCache,
   amount |-> amount, convertedAmount |-> cents]

\* what a convertCurrency call ended with
ConversionPending == [kind |-> "pending", value |-> Conversion(NoQuote, 0, 0), message |-> ""]
ConversionReturn(c) == [kind |-> "conversion", value |-> c, message |-> ""]
ConversionThrow(msg) == [kind |-> "error", value |-> Conversion(NoQuote, 0, 0), message |-> msg]

\* a getExchangeRate call that no convertCurrency call made
NoConversion == [amount |-> None, result |-> ConversionPending, before |-> 0]

\* one operation a call performed on a collaborator
Op(name, b, t, r, src) ==
  [op |-> name, base |-> b, target |-> t, rate |-> r, source |-> src]

(***************************************************************************)
(* State.                                                                  *)
(*   now        the clock, in milliseconds since the service started: the  *)
(*              Date of the application and the clocks of Redis and of     *)
(*              PostgreSQL, which are taken to agree                       *)
(*   cache      Redis: the keys that have not expired, each with its JSON  *)
(*              text and the instant it expires                            *)
(*   history    the rows of exchange_rates                                 *)
(*   calls      getExchangeRate calls started so far                       *)
(*   live       the request slots in use                                   *)
(* and for every request slot r, the getExchangeRate call it runs:         *)
(*   pc         where the call stands (the await it is suspended at)       *)
(*   arg        its arguments (baseCurrency, targetCurrency)               *)
(*   cached     checkCache's local `cached`                                *)
(*   settled    the provider promises given to Promise.allSettled          *)
(*   apiResult  fetchFromAPIs' local `apiResult`                           *)
(*   result     what the call returned or threw                            *)
(*   conversion the convertCurrency call that made the getExchangeRate     *)
(*              call, if one did: its amount, what it returned or threw,   *)
(*              and (history) the getExchangeRate calls started before it  *)
(* and for getRateHistory:                                                 *)
(*   report     what the last getRateHistory call returned or threw        *)
(* for deleteOldRates:                                                     *)
(*   removed    what the last deleteOldRates call returned or threw        *)
(* and for clearAll:                                                       *)
(*   clearing   where the clearAll call stands, its local `keys` (kept     *)
(*              once it has returned), whether it returned or threw, and   *)
(*              (history) the clearAll calls made so far                   *)
(* History variables, which no action reads:                               *)
(*   ops        per slot, the operations the call performed on the cache,  *)
(*              the providers and the history, in order                    *)
(*   seen       per slot, the number of the call, what the call found      *)
(*              under its key when it read the cache (an entry or none),   *)
(*              the pair's rows when it read the history, and the calls    *)
(*              that were running when it started, and the store operation *)
(*              that failed on it, if one did                              *)
(*   replied    per slot, the reply each provider gave (kept by the        *)
(*              aggregation specification alone)                           *)
(*   completed  per slot, the providers in the order in which their        *)
(*              promises settled (kept by the aggregation specification    *)
(*              alone)                                                     *)
(*   redisClient, pool                                                     *)
(*              the module variables of config/redis.ts and                *)
(*              config/database.ts: null or the client, the pool           *)
(*   heap       the Redis and Pool objects made so far, each with what     *)
(*              became of it; a pool with its checked-out clients          *)
(*   task       per slot, the call of a function of config/redis.ts or     *)
(*              config/database.ts that runs in it: where it stands, what  *)
(*              it holds and how it ended                                  *)
(*   data       per slot, the local `data` of the cacheService.setRate     *)
(*              call that runs in it                                       *)
(* A cache entry also carries the number of the call that wrote it, the    *)
(* CachedRate that call gave to JSON.stringify, and the Quote that call    *)
(* returned, once it has.                                                  *)
(***************************************************************************)
VARIABLES now, cache, history, calls, live, pc, arg, cached, settled, apiResult,
          result, conversion, report, removed, clearing, ops, seen, replied, completed,
          redisClient, pool, heap, task, data

vars == <<now, cache, history, calls, live, pc, arg, cached, settled, apiResult,
          result, conversion, report, removed, clearing, ops, seen, replied, completed,
          redisClient, pool, heap, task, data>>

Reqs == {"r1", "r2"}

\* the (baseCurrency, targetCurrency) arguments of the calls
RequestInputs == {<<"usd", "eur">>, <<"USD", "EUR">>, <<"EUR", "usd">>}

\* the shortest time after which an entry written now is gone: Redis serves
\* a key up to the millisecond its TTL ends in
Lapse == ttlSeconds * 1000 + 1

\* how far the clock moves in one advance: a millisecond, or the life of an
\* entry and a millisecond
ClockSteps == {1, Lapse}

\* the advances that led to the clock reading n
TickCount(n) == (n \div Lapse) + (n % Lapse)

\* the base code as the caller gave it
baseAsGiven(r) == arg[r][1]

\* const base = baseCurrency.toUpperCase(); const target = ...
base(r) == toUpperCase(arg[r][1])
target(r) == toUpperCase(arg[r][2])

NothingSettled == [p \in ProviderNames |-> None]
\* no clearAll call has been made
NotClearing ==
  [pc |-> "idle", keys |-> {}, outcome |-> "", runs |-> 0]
NothingSeen == [call |-> 0, entry |-> None, rows |-> None, beside |-> {}, failed |-> ""]

\* no Redis and no Pool object made yet
NoInstances == [redis |-> << >>, pools |-> << >>]

\* a slot in which no function of config/redis.ts or config/database.ts has
\* been called
NoTask == [op |-> "", pc |-> "idle", held |-> 0, kind |-> "", value |-> None, message |-> ""]

\* the ways provider p's promise can settle when asked for targetCurrency:
\* what its client makes of each reply the provider may give
SettlementsOf ==
  [p \in ProviderNames |->
     [t \in {toUpperCase(i[2]) : i \in RequestInputs} |->
        {fetchFrom(p, t, reply) : reply \in RepliesOf(p)}]]

\* the entry under a key
EntryAt(key) ==
  IF \E e \in cache : e.key = key THEN Some(CHOOSE e \in cache : e.key = key) ELSE None

\* redis.get(key): the text under the key, if the key is there
redisGet(key) ==
  IF IsSome(EntryAt(key)) THEN Some(Get(EntryAt(key)).text) ELSE None

\* redis.setex(key, seconds, text), by call number n, the text made of data
redisSetex(key, seconds, text, n, value) ==
  {e \in cache : e.key # key}
    \cup {[key |-> key, text |-> text, expiresAt |-> now + seconds * 1000,
           writer |-> n, written |-> value, answer |-> None]}

\* the cache, once call number n has returned Quote q
Answered(n, q) ==
  {IF e.writer = n THEN [e EXCEPT !.answer = Some(q)] ELSE e : e \in cache}

\* redis.del(key)
redisDel(key) == {e \in cache : e.key # key}

\* the rows of a pair
RowsOf(b, t) == {row \in history : row.baseCurrency = b /\ row.targetCurrency = t}

\* the numbers that the rates of a few units read as, each read once
ParsedRates == [units \in -3..3 |-> FromTicks(units * Quantum)]

\* parseFloat(row.rate): the number nearest to the decimal the column holds
parseFloat(kept) ==
  IF kept % Quantum = 0 /\ kept \div Quantum \in DOMAIN ParsedRates
  THEN ParsedRates[kept \div Quantum]
  ELSE FromTicks(kept)

\* the ExchangeRate object made of a row: rate: parseFloat(row.rate)
RowObject(row) == [row EXCEPT !.rate = parseFloat(row.rate)]

\* the same query with ORDER BY created_at ASC
getOldestRate(b, t) ==
  IF RowsOf(toUpperCase(b), toUpperCase(t)) = {} THEN None
  ELSE Some(RowObject(CHOOSE row \in RowsOf(toUpperCase(b), toUpperCase(t)) :
                        \A other \in RowsOf(toUpperCase(b), toUpperCase(t)) :
                           other.createdAt >= row.createdAt))

\* SELECT ... WHERE base_currency = $1 AND target_currency = $2
\* ORDER BY created_at DESC LIMIT 1, and the ExchangeRate made of the row
getLatestRate(b, t) ==
  IF RowsOf(toUpperCase(b), toUpperCase(t)) = {} THEN None
  ELSE Some(RowObject(CHOOSE row \in RowsOf(toUpperCase(b), toUpperCase(t)) :
                        \A other \in RowsOf(toUpperCase(b), toUpperCase(t)) :
                           other.createdAt <= row.createdAt))

\* a constraint on created_at alone, whatever the pair
UniqueViolationAcrossPairs(b, t, at) == \E row \in history : row.createdAt = at

\* CONSTRAINT unique_rate_record UNIQUE (base_currency, target_currency, created_at)
UniqueViolation(b, t, at) == \E row \in RowsOf(b, t) : row.createdAt = at

\* a row whose rate column drops the decimals it does not keep
InsertedRowTruncated(b, t, r, src) ==
  ExchangeRate(toUpperCase(b), toUpperCase(t), TruncateToQuantum(r), src, now)

\* what the rate column keeps of each of the rates above, worked out once
ColumnValues ==
  [rate \in {AverageRates[rates] : rates \in DOMAIN AverageRates} |-> RoundToQuantum(rate)]

\* what the rate column keeps of the number `rate`
rateColumn(rate) ==
  IF rate \in DOMAIN ColumnValues THEN ColumnValues[rate] ELSE RoundToQuantum(rate)

\* the row INSERT INTO exchange_rates ... VALUES ($1, $2, $3, $4) adds, r
\* being the number `rate`
InsertedRow(b, t, r, src) ==
  ExchangeRate(toUpperCase(b), toUpperCase(t), rateColumn(r), src, now)

Init ==
  /\ now = 0
  /\ cache = {}
  /\ history = {}
  /\ calls = 0
  /\ live = {"r1"}
  /\ pc = [r \in Reqs |-> "idle"]
  /\ arg = [r \in Reqs |-> <<"", "">>]
  /\ cached = [r \in Reqs |-> None]
  /\ settled = [r \in Reqs |-> NothingSettled]
  /\ apiResult = [r \in Reqs |-> None]
  /\ result = [r \in Reqs |-> Pending]
  /\ conversion = [r \in Reqs |-> NoConversion]
  /\ report = None
  /\ removed = None
  /\ clearing = NotClearing
  /\ ops = [r \in Reqs |-> << >>]
  /\ seen = [r \in Reqs |-> NothingSeen]
  /\ replied = [r \in Reqs |-> NothingSettled]
  /\ completed = [r \in Reqs |-> << >>]
  /\ redisClient = None
  /\ pool = None
  /\ heap = NoInstances
  /\ task = [r \in Reqs |-> NoTask]
  /\ data = [r \in Reqs |-> None]

(***************************************************************************)
(* getExchangeRate(baseCurrency, targetCurrency), one action per await.    *)
(***************************************************************************)
\* the call ends, returning a Quote or throwing, after a last operation
Finish(r, res, last) ==
  /\ pc' = [pc EXCEPT ![r] = "done"]
  /\ result' = [result EXCEPT ![r] = res]
  /\ ops' = [ops EXCEPT ![r] = ops[r] \o last]

\* getExchangeRate is called
Called(r, input) ==
  /\ r \in live
  /\ pc[r] \in {"idle", "done"}
  /\ IsSome(conversion[r].amount) => conversion[r].result.kind # "pending"
  /\ calls < MaxCalls
  /\ calls' = calls + 1
  /\ pc' = [pc EXCEPT ![r] = "getRate"]
  /\ arg' = [arg EXCEPT ![r] = input]
  /\ cached' = [cached EXCEPT ![r] = None]
  /\ settled' = [settled EXCEPT ![r] = NothingSettled]
  /\ apiResult' = [apiResult EXCEPT ![r] = None]
  /\ result' = [result EXCEPT ![r] = Pending]
  /\ ops' = [ops EXCEPT ![r] = << >>]
  /\ seen' = [seen EXCEPT ![r] =
                [call |-> calls + 1, entry |-> None, rows |-> None,
                 beside |-> {seen[o].call : o \in {x \in Reqs \ {r} : pc[x] \notin {"idle", "done"}}},
                 failed |-> ""]]
  /\ UNCHANGED <<now, cache, history, live, replied, completed,
                 redisClient, pool, heap, task, data, report, removed, clearing>>

\* a request for a rate arrives and getExchangeRate is called
Start(r, input) ==
  /\ Called(r, input)
  /\ conversion' = [conversion EXCEPT ![r] = NoConversion]

\* requests to the first two providers only
ProviderCallsOfFirstTwo(r) ==
  [i \in 1..(Len(Providers) - 1) |-> Op("provider", base(r), target(r), 0, Providers[i])]

\* the three provider requests fetchRateWithAggregation issues
ProviderCalls(r) ==
  [i \in 1..Len(Providers) |-> Op("provider", base(r), target(r), 0, Providers[i])]

\* a checkCache that takes a failed cache read for a miss
CheckCacheGetOrMiss(r, up) ==
  /\ pc[r] = "getRate"
  /\ LET got == redisGet(getCacheKey(base(r), target(r)))
         read == <<Op("cache.get", base(r), target(r), 0, "")>>
     IN  IF ~up
         THEN /\ seen' = [seen EXCEPT ![r].failed = "cache.get"]
              /\ pc' = [pc EXCEPT ![r] = "providers"]
              /\ ops' = [ops EXCEPT ![r] = ops[r] \o read \o ProviderCalls(r)]
              /\ UNCHANGED <<cached, result>>
         ELSE /\ seen' = [seen EXCEPT ![r].entry = Some(EntryAt(getCacheKey(base(r), target(r))))]
              /\ IF IsSome(got)
                 THEN /\ cached' = [cached EXCEPT ![r] = Some(JSONparse(Get(got)))]
                      /\ pc' = [pc EXCEPT ![r] = "getTTL"]
                      /\ ops' = [ops EXCEPT ![r] = ops[r] \o read]
                      /\ UNCHANGED result
                 ELSE /\ pc' = [pc EXCEPT ![r] = "providers"]
                      /\ ops' = [ops EXCEPT ![r] = ops[r] \o read \o ProviderCalls(r)]
                      /\ UNCHANGED <<cached, result>>
  /\ UNCHANGED <<now, cache, history, calls, live, arg, settled, apiResult, replied, completed,
                 redisClient, pool, heap, task, data,
                 conversion, report, removed, clearing>>

\* checkCache: await cacheService.getRate(base, target); on a miss the call
\* goes on to fetchFromAPIs, which issues the three provider requests
CheckCacheGet(r, up) ==
  /\ pc[r] = "getRate"
  /\ LET got == redisGet(getCacheKey(base(r), target(r)))
         read == <<Op("cache.get", base(r), target(r), 0, "")>>
     IN  IF ~up
         THEN /\ Finish(r, Throw(CacheStoreError), read)
              /\ seen' = [seen EXCEPT ![r].failed = "cache.get"]
              /\ UNCHANGED cached
         ELSE /\ seen' = [seen EXCEPT ![r].entry = Some(EntryAt(getCacheKey(base(r), target(r))))]
              /\ IF IsSome(got)
                 THEN /\ cached' = [cached EXCEPT ![r] = Some(JSONparse(Get(got)))]
                      /\ pc' = [pc EXCEPT ![r] = "getTTL"]
                      /\ ops' = [ops EXCEPT ![r] = ops[r] \o read]
                      /\ UNCHANGED result
                 ELSE /\ pc' = [pc EXCEPT ![r] = "providers"]
                      /\ ops' = [ops EXCEPT ![r] = ops[r] \o read \o ProviderCalls(r)]
                      /\ UNCHANGED <<cached, result>>
  /\ UNCHANGED <<now, cache, history, calls, live, arg, settled, apiResult, replied, completed,
                 redisClient, pool, heap, task, data,
                 conversion, report, removed, clearing>>

\* checkCache: await cacheService.getTTL(base, target), then the cached Quote
CheckCacheTTL(r, up) ==
  /\ pc[r] = "getTTL"
  /\ LET c == Get(cached[r])
         read == <<Op("cache.ttl", base(r), target(r), 0, "")>>
     IN  IF ~up
         THEN /\ Finish(r, Throw(CacheStoreError), read)
              /\ seen' = [seen EXCEPT ![r].failed = "cache.ttl"]
         ELSE /\ Finish(r, Return(Quote(c.baseCurrency, c.targetCurrency, c.rate,
                                        c.source, c.timestamp, TRUE)),
                        read)
              /\ UNCHANGED seen
  /\ UNCHANGED <<now, cache, history, calls, live, arg, cached, settled, apiResult,
                 replied, completed,
                 redisClient, pool, heap, task, data, conversion, report, removed, clearing>>

\* one provider promise settles, in one of the ways the provider's reply
\* lets it
ProviderSettles(r, p) ==
  /\ pc[r] = "providers"
  /\ ~IsSome(settled[r][p])
  /\ \E outcome \in SettlementsOf[p][target(r)] :
        settled' = [settled EXCEPT ![r][p] = Some(outcome)]
  /\ UNCHANGED <<now, cache, history, calls, live, pc, arg, cached, apiResult, result,
                 ops, seen, replied, completed,
                 redisClient, pool, heap, task, data, conversion, report, removed, clearing>>

\* a resolver that goes on to write whatever the aggregation returned
AllSettledThenWrite(r) ==
  /\ pc[r] = "providers"
  /\ \A p \in ProviderNames : IsSome(settled[r][p])
  /\ LET res == fetchRateWithAggregation([p \in ProviderNames |-> Get(settled[r][p])], now)
     IN  /\ apiResult' = [apiResult EXCEPT ![r] = Some(res)]
         /\ pc' = [pc EXCEPT ![r] = "setRate"]
  /\ UNCHANGED <<now, cache, history, calls, live, arg, cached, settled, result, ops,
                 seen, replied, completed,
                 redisClient, pool, heap, task, data, conversion, report, removed, clearing>>

\* Promise.allSettled resolves; fetchRateWithAggregation returns
AllSettled(r) ==
  /\ pc[r] = "providers"
  /\ \A p \in ProviderNames : IsSome(settled[r][p])
  /\ LET res == fetchRateWithAggregation([p \in ProviderNames |-> Get(settled[r][p])], now)
     IN  /\ apiResult' = [apiResult EXCEPT ![r] = Some(res)]
         /\ pc' = [pc EXCEPT ![r] = IF res.success THEN "setRate" ELSE "getLatestRate"]
  /\ UNCHANGED <<now, cache, history, calls, live, arg, cached, settled, result, ops,
                 seen, replied, completed,
                 redisClient, pool, heap, task, data, conversion, report, removed, clearing>>

\* fetchFromAPIs goes on after `await fetchRateWithAggregation(...)` and
\* calls cacheService.setRate(base, target, rate, source), which builds
\* `data`, its timestamp new Date(), and sends the setex command
CallSetRate(r) ==
  /\ pc[r] = "setRate"
  /\ LET a == Get(apiResult[r])
     IN  data' = [data EXCEPT ![r] =
                    Some(CachedRate(toUpperCase(base(r)), toUpperCase(target(r)),
                                    a.rate, a.source, now))]
  /\ pc' = [pc EXCEPT ![r] = "setex"]
  /\ UNCHANGED <<now, cache, history, calls, live, arg, cached, settled, apiResult, result,
                 ops, seen, replied, completed, redisClient, pool, heap, task,
                 conversion, report, removed, clearing>>

\* setRate: await redis.setex(key, this.ttl, JSON.stringify(data)) is
\* answered, and setRate returns or throws
SetRate(r, up) ==
  /\ pc[r] = "setex"
  /\ LET a == Get(apiResult[r])
         write == <<Op("cache.set", base(r), target(r), a.rate, a.source)>>
     IN  IF ~up
         THEN /\ Finish(r, Throw(CacheStoreError), write)
              /\ seen' = [seen EXCEPT ![r].failed = "cache.set"]
              /\ UNCHANGED cache
         ELSE /\ cache' = redisSetex(getCacheKey(base(r), target(r)), ttlSeconds,
                                     JSONstringify(Get(data[r])), seen[r].call,
                                     Get(data[r]))
              /\ pc' = [pc EXCEPT ![r] = "saveRate"]
              /\ ops' = [ops EXCEPT ![r] = ops[r] \o write]
              /\ UNCHANGED <<result, seen>>
  /\ data' = [data EXCEPT ![r] = None]
  /\ UNCHANGED <<now, history, calls, live, arg, cached, settled, apiResult, replied, completed,
                 redisClient, pool, heap, task,
                 conversion, report, removed, clearing>>

\* a saveRate whose failure takes the cache entry back
SaveRateOrUndo(r, up) ==
  /\ pc[r] = "saveRate"
  /\ LET a == Get(apiResult[r])
         write == <<Op("history.insert", base(r), target(r), a.rate, a.source)>>
         q == Quote(base(r), target(r), a.rate, a.source,
                    IF IsSome(a.timestamp) THEN Get(a.timestamp) ELSE now, FALSE)
     IN  IF ~up \/ UniqueViolation(base(r), target(r), now)
         THEN /\ Finish(r, Throw(IF up THEN DuplicateKeyError ELSE HistoryStoreError), write)
              /\ seen' = [seen EXCEPT ![r].failed = "history.insert"]
              /\ cache' = redisDel(getCacheKey(base(r), target(r)))
              /\ UNCHANGED history
         ELSE /\ history' = history \cup {InsertedRow(base(r), target(r), a.rate, a.source)}
              /\ cache' = Answered(seen[r].call, q)
              /\ Finish(r, Return(q), write)
              /\ UNCHANGED seen
  /\ UNCHANGED <<now, calls, live, arg, cached, settled, apiResult, replied, completed,
                 redisClient, pool, heap, task, data,
                 conversion, report, removed, clearing>>

\* fetchFromAPIs: await databaseService.saveRate(base, target, rate, source),
\* then the fresh Quote
SaveRate(r, up) ==
  /\ pc[r] = "saveRate"
  /\ LET a == Get(apiResult[r])
         write == <<Op("history.insert", base(r), target(r), a.rate, a.source)>>
         q == Quote(base(r), target(r), a.rate, a.source,
                    IF IsSome(a.timestamp) THEN Get(a.timestamp) ELSE now, FALSE)
     IN  IF ~up
         THEN /\ Finish(r, Throw(HistoryStoreError), write)
              /\ seen' = [seen EXCEPT ![r].failed = "history.insert"]
              /\ UNCHANGED <<history, cache>>
         ELSE IF UniqueViolation(base(r), target(r), now)
         THEN /\ Finish(r, Throw(DuplicateKeyError), write)
              /\ seen' = [seen EXCEPT ![r].failed = "history.insert"]
              /\ UNCHANGED <<history, cache>>
         ELSE /\ history' = history \cup {InsertedRow(base(r), target(r), a.rate, a.source)}
              /\ cache' = Answered(seen[r].call, q)
              /\ Finish(r, Return(q), write)
              /\ UNCHANGED seen
  /\ UNCHANGED <<now, calls, live, arg, cached, settled, apiResult, replied, completed,
                 redisClient, pool, heap, task, data,
                 conversion, report, removed, clearing>>

\* a fallback that caches the Quote it returns, source and all
FetchFromDatabaseCachingQuote(r, up) ==
  /\ pc[r] = "getLatestRate"
  /\ LET latestRate == getLatestRate(base(r), target(r))
         read == <<Op("history.latest", base(r), target(r), 0, "")>>
         quoted == CachedRate(base(r), target(r), Get(latestRate).rate,
                              Get(latestRate).source \o " (stale)", now)
     IN  IF ~up
         THEN /\ Finish(r, Throw(HistoryStoreError), read)
              /\ seen' = [seen EXCEPT ![r].failed = "history.latest"]
              /\ UNCHANGED cache
         ELSE /\ seen' = [seen EXCEPT ![r].rows = Some(RowsOf(base(r), target(r)))]
              /\ IF IsSome(latestRate)
                 THEN /\ Finish(r, Return(Quote(Get(latestRate).baseCurrency,
                                                Get(latestRate).targetCurrency,
                                                Get(latestRate).rate,
                                                Get(latestRate).source \o " (stale)",
                                                Get(latestRate).createdAt, FALSE)),
                                read)
                      /\ cache' = redisSetex(getCacheKey(base(r), target(r)), ttlSeconds,
                                             JSONstringify(quoted), seen[r].call, quoted)
                 ELSE /\ Finish(r, Throw(ResolutionFailure(base(r), target(r))), read)
                      /\ UNCHANGED cache
  /\ UNCHANGED <<now, history, calls, live, arg, cached, settled, apiResult, replied, completed,
                 redisClient, pool, heap, task, data,
                 conversion, report, removed, clearing>>

\* a fallback that returns the record's source as it is
FetchFromDatabaseUnmarked(r, up) ==
  /\ pc[r] = "getLatestRate"
  /\ LET latestRate == getLatestRate(base(r), target(r))
         read == <<Op("history.latest", base(r), target(r), 0, "")>>
     IN  IF ~up
         THEN /\ Finish(r, Throw(HistoryStoreError), read)
              /\ seen' = [seen EXCEPT ![r].failed = "history.latest"]
         ELSE /\ seen' = [seen EXCEPT ![r].rows = Some(RowsOf(base(r), target(r)))]
              /\ IF IsSome(latestRate)
                 THEN Finish(r, Return(Quote(Get(latestRate).baseCurrency,
                                             Get(latestRate).targetCurrency,
                                             Get(latestRate).rate,
                                             Get(latestRate).source,
                                             Get(latestRate).createdAt, FALSE)),
                             read)
                 ELSE Finish(r, Throw(ResolutionFailure(base(r), target(r))), read)
  /\ UNCHANGED <<now, cache, history, calls, live, arg, cached, settled, apiResult,
                 replied, completed, redisClient, pool, heap, task, data,
                 conversion, report, removed, clearing>>

\* a fallback that writes the record it returns to the cache
FetchFromDatabaseReseeding(r, up) ==
  /\ pc[r] = "getLatestRate"
  /\ LET latestRate == getLatestRate(base(r), target(r))
         read == <<Op("history.latest", base(r), target(r), 0, "")>>
     IN  IF ~up
         THEN /\ Finish(r, Throw(HistoryStoreError), read)
              /\ seen' = [seen EXCEPT ![r].failed = "history.latest"]
              /\ UNCHANGED cache
         ELSE /\ seen' = [seen EXCEPT ![r].rows = Some(RowsOf(base(r), target(r)))]
              /\ IF IsSome(latestRate)
                 THEN /\ Finish(r, Return(Quote(Get(latestRate).baseCurrency,
                                                Get(latestRate).targetCurrency,
                                                Get(latestRate).rate,
                                                Get(latestRate).source \o " (stale)",
                                                Get(latestRate).createdAt, FALSE)),
                                read)
                      /\ cache' = redisSetex(
                                     getCacheKey(base(r), target(r)), ttlSeconds,
                                     JSONstringify(CachedRate(base(r), target(r),
                                                              Get(latestRate).rate,
                                                              Get(latestRate).source, now)),
                                     seen[r].call,
                                     CachedRate(base(r), target(r), Get(latestRate).rate,
                                                Get(latestRate).source, now))
                 ELSE /\ Finish(r, Throw(ResolutionFailure(base(r), target(r))), read)
                      /\ UNCHANGED cache
  /\ UNCHANGED <<now, history, calls, live, arg, cached, settled, apiResult, replied, completed,
                 redisClient, pool, heap, task, data,
                 conversion, report, removed, clearing>>

\* a fallback that waits until another request has recorded the pair
FetchFromDatabaseWhenRecorded(r, up) ==
  /\ pc[r] = "getLatestRate"
  /\ IsSome(getLatestRate(base(r), target(r)))
  /\ LET latestRate == getLatestRate(base(r), target(r))
         read == <<Op("history.latest", base(r), target(r), 0, "")>>
     IN  /\ seen' = [seen EXCEPT ![r].rows = Some(RowsOf(base(r), target(r)))]
         /\ Finish(r, Return(Quote(Get(latestRate).baseCurrency,
                                   Get(latestRate).targetCurrency,
                                   Get(latestRate).rate,
                                   Get(latestRate).source \o " (stale)",
                                   Get(latestRate).createdAt, FALSE)),
                   read)
  /\ UNCHANGED <<now, cache, history, calls, live, arg, cached, settled, apiResult,
                 replied, completed, redisClient, pool, heap, task, data,
                 conversion, report, removed, clearing>>

\* fetchFromDatabase: await databaseService.getLatestRate(base, target), then
\* the stale Quote, or the error of step 4
FetchFromDatabase(r, up) ==
  /\ pc[r] = "getLatestRate"
  /\ LET latestRate == getLatestRate(base(r), target(r))
         read == <<Op("history.latest", base(r), target(r), 0, "")>>
     IN  IF ~up
         THEN /\ Finish(r, Throw(HistoryStoreError), read)
              /\ seen' = [seen EXCEPT ![r].failed = "history.latest"]
         ELSE /\ seen' = [seen EXCEPT ![r].rows = Some(RowsOf(base(r), target(r)))]
              /\ IF IsSome(latestRate)
                 THEN Finish(r, Return(Quote(Get(latestRate).baseCurrency,
                                             Get(latestRate).targetCurrency,
                                             Get(latestRate).rate,
                                             Get(latestRate).source \o " (stale)",
                                             Get(latestRate).createdAt, FALSE)),
                             read)
                 ELSE Finish(r, Throw(ResolutionFailure(base(r), target(r))), read)
  /\ UNCHANGED <<now, cache, history, calls, live, arg, cached, settled, apiResult,
                 replied, completed, redisClient, pool, heap, task, data,
                 conversion, report, removed, clearing>>

(***************************************************************************)
(* clearCache(baseCurrency, targetCurrency)                                *)
(***************************************************************************)
\* a clearing that deletes the entries of every pair
clearCacheOfEveryPair(input) ==
  /\ cache' = {}
  /\ UNCHANGED <<now, history, calls, live, pc, arg, cached, settled, apiResult, result,
                 ops, seen, replied, completed,
                 redisClient, pool, heap, task, data, conversion, report, removed, clearing>>

clearCache(input) ==
  /\ cache' = redisDel(getCacheKey(toUpperCase(input[1]), toUpperCase(input[2])))
  /\ UNCHANGED <<now, history, calls, live, pc, arg, cached, settled, apiResult, result,
                 ops, seen, replied, completed,
                 redisClient, pool, heap, task, data, conversion, report, removed, clearing>>

(***************************************************************************)
(* Time passes; Redis drops the keys whose TTL has run out.                *)
(***************************************************************************)
\* time passing over a cache that keeps its keys
TickKeeping(d) ==
  /\ now' = now + d
  /\ UNCHANGED <<cache, history, calls, live, pc, arg, cached, settled, apiResult, result,
                 ops, seen, replied, completed,
                 redisClient, pool, heap, task, data, conversion, report, removed, clearing>>

\* d milliseconds pass: a key set with setex is there as long as the clock
\* has not passed the end of its TTL
Tick(d) ==
  /\ now' = now + d
  /\ cache' = {e \in cache : e.expiresAt >= now + d}
  /\ UNCHANGED <<history, calls, live, pc, arg, cached, settled, apiResult, result, ops,
                 seen, replied, completed,
                 redisClient, pool, heap, task, data, conversion, report, removed, clearing>>

Next ==
  \/ \E r \in Reqs, input \in RequestInputs : Start(r, input)
  \/ \E r \in Reqs, up \in BOOLEAN : CheckCacheGet(r, up)
  \/ \E r \in Reqs, up \in BOOLEAN : CheckCacheTTL(r, up)
  \/ \E r \in Reqs, p \in ProviderNames : ProviderSettles(r, p)
  \/ \E r \in Reqs : AllSettled(r)
  \/ \E r \in Reqs : CallSetRate(r)
  \/ \E r \in Reqs, up \in BOOLEAN : SetRate(r, up)
  \/ \E r \in Reqs, up \in BOOLEAN : SaveRate(r, up)
  \/ \E r \in Reqs, up \in BOOLEAN : FetchFromDatabase(r, up)
  \/ \E input \in RequestInputs : clearCache(input)
  \/ \E d \in ClockSteps : TickCount(now) < MaxTicks /\ Tick(d)

Spec == Init /\ [][Next]_vars

(***************************************************************************)
(* The same service with two requests in flight at a time, each request    *)
(* slot serving one call.                                                  *)
(***************************************************************************)
InitConcurrent ==
  /\ now = 0
  /\ cache = {}
  /\ history = {}
  /\ calls = 0
  /\ live = Reqs
  /\ pc = [r \in Reqs |-> "idle"]
  /\ arg = [r \in Reqs |-> <<"", "">>]
  /\ cached = [r \in Reqs |-> None]
  /\ settled = [r \in Reqs |-> NothingSettled]
  /\ apiResult = [r \in Reqs |-> None]
  /\ result = [r \in Reqs |-> Pending]
  /\ conversion = [r \in Reqs |-> NoConversion]
  /\ report = None
  /\ removed = None
  /\ clearing = NotClearing
  /\ ops = [r \in Reqs |-> << >>]
  /\ seen = [r \in Reqs |-> NothingSeen]
  /\ replied = [r \in Reqs |-> NothingSettled]
  /\ completed = [r \in Reqs |-> << >>]
  /\ redisClient = None
  /\ pool = None
  /\ heap = NoInstances
  /\ task = [r \in Reqs |-> NoTask]
  /\ data = [r \in Reqs |-> None]

\* a request arrives on a slot that has served none
StartOnce(r, input) ==
  /\ pc[r] = "idle"
  /\ Start(r, input)

\* the (baseCurrency, targetCurrency) arguments of the concurrent calls: one
\* pair
ConcurrentInputs == {<<"usd", "eur">>}

NextConcurrent ==
  \/ \E r \in Reqs, input \in ConcurrentInputs : StartOnce(r, input)
  \/ \E r \in Reqs, up \in BOOLEAN : CheckCacheGet(r, up)
  \/ \E r \in Reqs, up \in BOOLEAN : CheckCacheTTL(r, up)
  \/ \E r \in Reqs, p \in ProviderNames : ProviderSettles(r, p)
  \/ \E r \in Reqs : AllSettled(r)
  \/ \E r \in Reqs : CallSetRate(r)
  \/ \E r \in Reqs, up \in BOOLEAN : SetRate(r, up)
  \/ \E r \in Reqs, up \in BOOLEAN : SaveRate(r, up)
  \/ \E r \in Reqs, up \in BOOLEAN : FetchFromDatabase(r, up)
  \/ \E input \in ConcurrentInputs : clearCache(input)
  \/ \E d \in ClockSteps : TickCount(now) < MaxTicks /\ Tick(d)

SpecConcurrent == InitConcurrent /\ [][NextConcurrent]_vars

(***************************************************************************)
(* The operations of RateAggregatorService that take currency codes, one   *)
(* request at a time: getExchangeRate called by a request for a rate or by *)
(* convertCurrency, getRateHistory and clearCache.                         *)
(***************************************************************************)
\* the amount of the conversions, in thousandths: 2.5
ServiceAmounts == {2500}

\* the (baseCurrency, targetCurrency) arguments of the requests: one pair,
\* in two letter cases
ServiceInputs == {<<"usd", "eur">>, <<"USD", "EUR">>}

\* the `hours` of getRateHistory: a day
HistoryHours == {24}

\* hours in milliseconds
HoursMs(hours) == hours * 3600 * 1000

\* the RateHistory made of a row: rate: parseFloat(row.rate)
RateHistory(row) ==
  [rate |-> parseFloat(row.rate), source |-> row.source, timestamp |-> row.createdAt]

\* rows ORDER BY created_at DESC
RECURSIVE OrderedDesc(_)
OrderedDesc(rows) ==
  IF rows = {} THEN << >>
  ELSE LET first == CHOOSE row \in rows : \A other \in rows : other.createdAt <= row.createdAt
       IN  <<RateHistory(first)>> \o OrderedDesc(rows \ {first})

\* a query that leaves the age of the rows out
databaseGetRateHistoryEver(b, t, hoursBack) ==
  OrderedDesc(RowsOf(toUpperCase(b), toUpperCase(t)))

\* databaseService.getRateHistory: SELECT rate, source, created_at ... WHERE
\* base_currency = $1 AND target_currency = $2
\* AND created_at > NOW() - INTERVAL '1 hour' * $3 ORDER BY created_at DESC
databaseGetRateHistory(b, t, hoursBack) ==
  OrderedDesc({row \in RowsOf(toUpperCase(b), toUpperCase(t)) :
                 row.createdAt > now - HoursMs(hoursBack)})

\* what getRateHistory returns
HistoryReport(b, t, hours, rows) ==
  [baseCurrency |-> b, targetCurrency |-> t, period |-> ToString(hours) \o " hours",
   dataPoints |-> Len(rows), history |-> rows]

NoReport == HistoryReport("", "", 0, << >>)
ReportReturn(rep) == [kind |-> "report", value |-> rep, message |-> ""]
ReportThrow(msg) == [kind |-> "error", value |-> NoReport, message |-> msg]

\* a report that names the codes as the caller gave them
getRateHistoryResultAsGiven(input, hours) ==
  ReportReturn(HistoryReport(input[1], input[2], hours,
                             databaseGetRateHistory(toUpperCase(input[1]),
                                                    toUpperCase(input[2]), hours)))

\* getRateHistory(baseCurrency, targetCurrency, hours)
getRateHistoryResult(input, hours) ==
  ReportReturn(HistoryReport(toUpperCase(input[1]), toUpperCase(input[2]), hours,
                             databaseGetRateHistory(toUpperCase(input[1]),
                                                    toUpperCase(input[2]), hours)))

getRateHistory(input, hours, up) ==
  /\ report' = Some(IF up THEN getRateHistoryResult(input, hours)
                          ELSE ReportThrow(HistoryStoreError))
  /\ UNCHANGED <<now, cache, history, calls, live, pc, arg, cached, settled, apiResult,
                 result, conversion, removed, clearing, ops, seen, replied, completed,
                 redisClient, pool, heap, task, data>>

\* redis.keys(pattern) for a pattern that is a prefix and "*"
redisKeys(prefix) ==
  {e.key : e \in {x \in cache : /\ Len(x.key) >= Len(prefix)
                                 /\ SubSeq(x.key, 1, Len(prefix)) = prefix}}

\* a del command that empties the history with the cache
clearAllDelAndHistory(up) ==
  /\ clearing.pc = "del"
  /\ clearing' = [clearing EXCEPT !.pc = "done", !.outcome = "returned"]
  /\ cache' = {e \in cache : e.key \notin clearing.keys}
  /\ history' = {}
  /\ UNCHANGED <<now, calls, live, pc, arg, cached, settled, apiResult,
                 result, conversion, report, removed, ops, seen, replied, completed,
                 redisClient, pool, heap, task, data>>

\* clearAllCache(): cacheService.clearAll(), command by command:
\* `await redis.keys("rate:*")`, then, if it found keys,
\* `await redis.del(...keys)`; other requests run between the two
\* clearAllCache is called and the keys command is answered
clearAllKeys(up) ==
  /\ clearing.pc \in {"idle", "done"}
  /\ clearing.runs < MaxClears
  /\ clearing' =
       IF ~up
       THEN [pc |-> "done", keys |-> {}, outcome |-> "thrown",
             runs |-> clearing.runs + 1]
       ELSE IF redisKeys("rate:") = {}
       THEN [pc |-> "done", keys |-> {}, outcome |-> "returned",
             runs |-> clearing.runs + 1]
       ELSE [pc |-> "del", keys |-> redisKeys("rate:"), outcome |-> "",
             runs |-> clearing.runs + 1]
  /\ UNCHANGED <<now, cache, history, calls, live, pc, arg, cached, settled, apiResult,
                 result, conversion, report, removed, ops, seen, replied, completed,
                 redisClient, pool, heap, task, data>>

\* a del command that deletes the first of the keys it is given
clearAllDelFirst(up) ==
  /\ clearing.pc = "del"
  /\ clearing' = [clearing EXCEPT !.pc = "done", !.outcome = "returned"]
  /\ cache' = {e \in cache : e.key # (CHOOSE k \in clearing.keys : TRUE)}
  /\ UNCHANGED <<now, history, calls, live, pc, arg, cached, settled, apiResult,
                 result, conversion, report, removed, ops, seen, replied, completed,
                 redisClient, pool, heap, task, data>>

\* the del command is answered and clearAllCache returns, or throws
clearAllDel(up) ==
  /\ clearing.pc = "del"
  /\ IF up
     THEN /\ clearing' = [clearing EXCEPT !.pc = "done", !.outcome = "returned"]
          /\ cache' = {e \in cache : e.key \notin clearing.keys}
     ELSE /\ clearing' = [clearing EXCEPT !.pc = "done", !.outcome = "thrown", !.keys = {}]
          /\ UNCHANGED cache
  /\ UNCHANGED <<now, history, calls, live, pc, arg, cached, settled, apiResult,
                 result, conversion, report, removed, ops, seen, replied, completed,
                 redisClient, pool, heap, task, data>>

\* a conversion that answers a failed getExchangeRate call with an amount
\* of zero
convertCurrencyOrZero(r) ==
  /\ pc[r] = "done"
  /\ IsSome(conversion[r].amount)
  /\ conversion[r].result.kind = "pending"
  /\ conversion' =
       [conversion EXCEPT ![r].result =
          IF result[r].kind = "quote"
          THEN ConversionReturn(
                 Conversion(result[r].quote, Get(conversion[r].amount),
                            RoundedHundredths(FromDecimal(Get(conversion[r].amount), 3),
                                              result[r].quote.rate)))
          ELSE ConversionReturn(Conversion(NoQuote, Get(conversion[r].amount), 0))]
  /\ UNCHANGED <<now, cache, history, calls, live, pc, arg, cached, settled, apiResult,
                 result, report, removed, clearing, ops, seen, replied, completed,
                 redisClient, pool, heap, task, data>>

\* convertCurrency after `await this.getExchangeRate(...)`: the Quote with
\* amount and convertedAmount beside its fields, or the error of the call
convertCurrency(r) ==
  /\ pc[r] = "done"
  /\ IsSome(conversion[r].amount)
  /\ conversion[r].result.kind = "pending"
  /\ conversion' =
       [conversion EXCEPT ![r].result =
          IF result[r].kind = "quote"
          THEN ConversionReturn(
                 Conversion(result[r].quote, Get(conversion[r].amount),
                            RoundedHundredths(FromDecimal(Get(conversion[r].amount), 3),
                                              result[r].quote.rate)))
          ELSE ConversionThrow(result[r].message)]
  /\ UNCHANGED <<now, cache, history, calls, live, pc, arg, cached, settled, apiResult,
                 result, report, removed, clearing, ops, seen, replied, completed,
                 redisClient, pool, heap, task, data>>

\* a request for a conversion arrives: convertCurrency calls getExchangeRate
StartConvert(r, input, amount) ==
  /\ calls < MaxServiceCalls
  /\ Called(r, input)
  /\ conversion' = [conversion EXCEPT ![r] =
                      [amount |-> Some(amount), result |-> ConversionPending,
                       before |-> calls]]

\* a request for a rate arrives
StartRate(r, input) ==
  /\ calls < MaxServiceCalls
  /\ Start(r, input)

NextService ==
  \/ \E r \in Reqs, input \in ServiceInputs : StartRate(r, input)
  \/ \E r \in Reqs, input \in ServiceInputs, amount \in ServiceAmounts :
        StartConvert(r, input, amount)
  \/ \E r \in Reqs, up \in BOOLEAN : CheckCacheGet(r, up)
  \/ \E r \in Reqs, up \in BOOLEAN : CheckCacheTTL(r, up)
  \/ \E r \in Reqs, p \in ProviderNames : ProviderSettles(r, p)
  \/ \E r \in Reqs : AllSettled(r)
  \/ \E r \in Reqs : CallSetRate(r)
  \/ \E r \in Reqs, up \in BOOLEAN : SetRate(r, up)
  \/ \E r \in Reqs, up \in BOOLEAN : SaveRate(r, up)
  \/ \E r \in Reqs, up \in BOOLEAN : FetchFromDatabase(r, up)
  \/ \E r \in Reqs : convertCurrency(r)
  \/ \E input \in ServiceInputs, hours \in HistoryHours, up \in BOOLEAN :
        getRateHistory(input, hours, up)
  \/ \E input \in ServiceInputs : clearCache(input)
  \/ \E d \in ClockSteps : TickCount(now) < MaxTicks /\ Tick(d)

SpecService == Init /\ [][NextService]_vars

(***************************************************************************)
(* Two requests for one pair in flight, every await of a call resolving in *)
(* the end: a provider request settles (its client gives up after          *)
(* `timeout` milliseconds at the latest), a Redis command and an SQL       *)
(* statement are answered or fail, and the event loop resumes the call.    *)
(***************************************************************************)
\* private readonly timeout = 5000
timeout == 5000

\* the steps of the call in slot r
CallSteps(r) ==
  \/ \E up \in BOOLEAN : CheckCacheGet(r, up)
  \/ \E up \in BOOLEAN : CheckCacheTTL(r, up)
  \/ \E p \in ProviderNames : ProviderSettles(r, p)
  \/ AllSettled(r)
  \/ CallSetRate(r)
  \/ \E up \in BOOLEAN : SetRate(r, up)
  \/ \E up \in BOOLEAN : SaveRate(r, up)
  \/ \E up \in BOOLEAN : FetchFromDatabase(r, up)

\* the (baseCurrency, targetCurrency) arguments of the two requests
FairInputs == {<<"usd", "eur">>}

\* how far the clock moves in one advance: a millisecond
FairClockSteps == {1}

NextFair ==
  \/ \E r \in Reqs, input \in FairInputs : StartOnce(r, input)
  \/ \E r \in Reqs : CallSteps(r)
  \/ \E input \in FairInputs : clearCache(input)

SpecFair ==
  /\ InitConcurrent
  /\ [][NextFair]_vars
  /\ \A r \in Reqs : WF_vars(CallSteps(r))

(***************************************************************************)
(* clearAllCache command by command, while requests for the rates of two   *)
(* pairs are served: `await redis.keys("rate:*")`, then, if it found keys, *)
(* `await redis.del(...keys)`.                                             *)
(***************************************************************************)
\* the (baseCurrency, targetCurrency) arguments of the requests
ClearInputs == {<<"usd", "eur">>, <<"EUR", "usd">>}

NextClear ==
  \/ \E r \in Reqs, input \in ClearInputs : Start(r, input)
  \/ \E r \in Reqs : CallSteps(r)
  \/ \E up \in BOOLEAN : clearAllKeys(up)
  \/ \E up \in BOOLEAN : clearAllDel(up)
  \/ \E d \in FairClockSteps : TickCount(now) < MaxTicks /\ Tick(d)

SpecClear == Init /\ [][NextClear]_vars

(***************************************************************************)
(* The five operations of the core on one pair, one request at a time:     *)
(* getExchangeRate called by a request for a rate or by convertCurrency,   *)
(* getRateHistory, clearCache and clearAllCache, the two commands of       *)
(* clearAllCache interleaved with the steps of the other calls.            *)
(***************************************************************************)
\* how far the clock moves in one advance: the life of a cache entry and a
\* millisecond
CoreClockSteps == {Lapse}

NextCore ==
  \/ \E r \in Reqs, input \in FairInputs : StartRate(r, input)
  \/ \E r \in Reqs, input \in FairInputs, amount \in ServiceAmounts :
        StartConvert(r, input, amount)
  \/ \E r \in Reqs : CallSteps(r)
  \/ \E r \in Reqs : convertCurrency(r)
  \/ \E input \in FairInputs, hours \in HistoryHours, up \in BOOLEAN :
        getRateHistory(input, hours, up)
  \/ \E input \in FairInputs : clearCache(input)
  \/ \E up \in BOOLEAN : clearAllKeys(up)
  \/ \E up \in BOOLEAN : clearAllDel(up)
  \/ \E d \in CoreClockSteps : TickCount(now) < MaxTicks /\ Tick(d)

SpecCore == Init /\ [][NextCore]_vars

(***************************************************************************)
(* Requests for the rate of one pair, one at a time, while cache entries   *)
(* reach the end of their TTL and pass it: the clock moves by the TTL or   *)
(* by the TTL and a millisecond, at any await of a call.                   *)
(***************************************************************************)
\* how far the clock moves in one advance
ExpirySteps == {ttlSeconds * 1000, Lapse}

NextExpiry ==
  \/ \E r \in Reqs, input \in FairInputs : Start(r, input)
  \/ \E r \in Reqs : CallSteps(r)
  \/ \E d \in ExpirySteps : now < MaxLives * ttlSeconds * 1000 /\ Tick(d)

SpecExpiry == Init /\ [][NextExpiry]_vars

(***************************************************************************)
(* Requests for two pairs in flight: slot r1 serves requests for the rate  *)
(* of one pair, one after the other, while slot r2 serves one request for  *)
(* the rate of the other pair, or for a conversion in it, and the cache of *)
(* either pair is cleared at any moment.                                   *)
(***************************************************************************)
\* the arguments of the requests of slot r1 and of slot r2
PairInputs == [r \in Reqs |-> IF r = "r1" THEN <<"usd", "eur">> ELSE <<"EUR", "usd">>]

\* a request for a conversion arrives on a slot that has served none
StartConvertOnce(r, input, amount) ==
  /\ pc[r] = "idle"
  /\ ~IsSome(conversion[r].amount)
  /\ StartConvert(r, input, amount)

NextPairs ==
  \/ StartRate("r1", PairInputs["r1"])
  \/ StartOnce("r2", PairInputs["r2"])
  \/ \E amount \in ServiceAmounts : StartConvertOnce("r2", PairInputs["r2"], amount)
  \/ \E r \in Reqs : CallSteps(r)
  \/ \E r \in Reqs : convertCurrency(r)
  \/ \E r \in Reqs : clearCache(PairInputs[r])
  \/ \E d \in FairClockSteps : TickCount(now) < MaxTicks /\ Tick(d)

SpecPairs == InitConcurrent /\ [][NextPairs]_vars

(***************************************************************************)
(* Two calls for one pair, one per request slot, with the cache entry      *)
(* running out or being cleared between them.                              *)
(***************************************************************************)
NextRoundTrip ==
  \/ \E r \in Reqs, input \in FairInputs : StartOnce(r, input)
  \/ \E r \in Reqs : CallSteps(r)
  \/ \E input \in FairInputs : clearCache(input)
  \/ \E d \in ClockSteps : TickCount(now) < MaxTicks /\ Tick(d)

SpecRoundTrip == InitConcurrent /\ [][NextRoundTrip]_vars

(***************************************************************************)
(* config/redis.ts and config/database.ts: the module variables            *)
(* redisClient and pool, the functions that set and read them, and         *)
(* query().  A call runs in a slot; an await is a step of its own.  What   *)
(* redis.quit(), pool.end(), pool.connect() and client.query() do is the   *)
(* libraries' affair: each either resolves or rejects.                     *)
(***************************************************************************)
\* the variables of the rate service, which these functions leave alone
rateVars ==
  <<now, cache, history, calls, live, pc, arg, cached, settled, apiResult, result,
    conversion, report, removed, clearing, ops, seen, replied, completed, data>>

\* new Redis({...}) and new Pool({...}) as they are made
NewRedis == [quit |-> FALSE]
NewPool == [checkedOut |-> 0, tested |-> "pending", ended |-> FALSE]

\* throw new Error("Redis client not initialized. Call connectRedis() first.")
RedisNotInitialized == "Redis client not initialized. Call connectRedis() first."

\* throw new Error("Database pool not initialized. Call connectDatabase() first.")
PoolNotInitialized == "Database pool not initialized. Call connectDatabase() first."

\* what a rejected redis.quit() or pool.end() throws
DisconnectError == "disconnect error"

\* what a rejected pool.connect() throws
PoolConnectError == "pool connect error"

\* no call runs in the slot
Free(r) == task[r].pc \in {"idle", "done"}

\* the call in slot r awaits, holding the object numbered id
Awaits(r, op, place, id) ==
  task' = [task EXCEPT ![r] = [op |-> op, pc |-> place, held |-> id, kind |-> "",
                               value |-> None, message |-> ""]]

\* the call in slot r returns value
Returns(r, op, value) ==
  task' = [task EXCEPT ![r] = [op |-> op, pc |-> "done", held |-> 0, kind |-> "returned",
                               value |-> value, message |-> ""]]

\* the call in slot r throws
Throws(r, op, message) ==
  task' = [task EXCEPT ![r] = [op |-> op, pc |-> "done", held |-> 0, kind |-> "thrown",
                               value |-> None, message |-> message]]

\* connectRedis(): no await in it
connectRedis(r) ==
  /\ Free(r)
  /\ IF IsSome(redisClient)
     THEN /\ Returns(r, "connectRedis", redisClient)
          /\ UNCHANGED <<redisClient, heap>>
     ELSE /\ Len(heap.redis) < MaxInstances
          /\ heap' = [heap EXCEPT !.redis = Append(@, NewRedis)]
          /\ redisClient' = Some(Len(heap.redis) + 1)
          /\ Returns(r, "connectRedis", Some(Len(heap.redis) + 1))
  /\ UNCHANGED <<pool, rateVars>>

getRedisClient(r) ==
  /\ Free(r)
  /\ IF ~IsSome(redisClient)
     THEN Throws(r, "getRedisClient", RedisNotInitialized)
     ELSE Returns(r, "getRedisClient", redisClient)
  /\ UNCHANGED <<redisClient, pool, heap, rateVars>>

\* disconnectRedis() as far as await redisClient.quit()
disconnectRedis(r) ==
  /\ Free(r)
  /\ IF IsSome(redisClient)
     THEN Awaits(r, "disconnectRedis", "quit", Get(redisClient))
     ELSE Returns(r, "disconnectRedis", None)
  /\ UNCHANGED <<redisClient, pool, heap, rateVars>>

\* quit() settles; redisClient = null
redisQuit(r, ok) ==
  /\ task[r].pc = "quit"
  /\ IF ok
     THEN /\ heap' = [heap EXCEPT !.redis[task[r].held].quit = TRUE]
          /\ redisClient' = None
          /\ Returns(r, "disconnectRedis", None)
     ELSE /\ Throws(r, "disconnectRedis", DisconnectError)
          /\ UNCHANGED <<redisClient, heap>>
  /\ UNCHANGED <<pool, rateVars>>

\* connectDatabase() as far as await pool.connect()
connectDatabase(r) ==
  /\ Free(r)
  /\ IF IsSome(pool)
     THEN /\ Returns(r, "connectDatabase", pool)
          /\ UNCHANGED <<pool, heap>>
     ELSE /\ Len(heap.pools) < MaxInstances
          /\ heap' = [heap EXCEPT !.pools = Append(@, NewPool)]
          /\ pool' = Some(Len(heap.pools) + 1)
          /\ Awaits(r, "connectDatabase", "testConnect", Len(heap.pools) + 1)
  /\ UNCHANGED <<redisClient, rateVars>>

\* a test connection that, failing, takes the pool back
testConnectOrReset(r, ok) ==
  /\ task[r].pc = "testConnect"
  /\ IF ok
     THEN /\ heap' = [heap EXCEPT !.pools[task[r].held].tested = "ok"]
          /\ Returns(r, "connectDatabase", pool)
          /\ UNCHANGED pool
     ELSE /\ heap' = [heap EXCEPT !.pools[task[r].held].tested = "failed"]
          /\ Throws(r, "connectDatabase", PoolConnectError)
          /\ pool' = None
  /\ UNCHANGED <<redisClient, rateVars>>

\* the test connection settles: client.release() and return pool, or the
\* error thrown again
testConnect(r, ok) ==
  /\ task[r].pc = "testConnect"
  /\ IF ok
     THEN /\ heap' = [heap EXCEPT !.pools[task[r].held].tested = "ok"]
          /\ Returns(r, "connectDatabase", pool)
     ELSE /\ heap' = [heap EXCEPT !.pools[task[r].held].tested = "failed"]
          /\ Throws(r, "connectDatabase", PoolConnectError)
  /\ UNCHANGED <<redisClient, pool, rateVars>>

getPool(r) ==
  /\ Free(r)
  /\ IF ~IsSome(pool)
     THEN Throws(r, "getPool", PoolNotInitialized)
     ELSE Returns(r, "getPool", pool)
  /\ UNCHANGED <<redisClient, pool, heap, rateVars>>

\* disconnectDatabase() as far as await pool.end()
disconnectDatabase(r) ==
  /\ Free(r)
  /\ IF IsSome(pool)
     THEN Awaits(r, "disconnectDatabase", "end", Get(pool))
     ELSE Returns(r, "disconnectDatabase", None)
  /\ UNCHANGED <<redisClient, pool, heap, rateVars>>

\* end() settles; pool = null
poolEnd(r, ok) ==
  /\ task[r].pc = "end"
  /\ IF ok
     THEN /\ heap' = [heap EXCEPT !.pools[task[r].held].ended = TRUE]
          /\ pool' = None
          /\ Returns(r, "disconnectDatabase", None)
     ELSE /\ Throws(r, "disconnectDatabase", DisconnectError)
          /\ UNCHANGED <<pool, heap>>
  /\ UNCHANGED <<redisClient, rateVars>>

\* query(text, params) as far as await getPool().connect()
query(r) ==
  /\ Free(r)
  /\ IF ~IsSome(pool)
     THEN Throws(r, "query", PoolNotInitialized)
     ELSE Awaits(r, "query", "connect", Get(pool))
  /\ UNCHANGED <<redisClient, pool, heap, rateVars>>

\* pool.connect() settles: a client is checked out, and client.query(text,
\* params) is awaited inside the try
queryConnect(r, ok) ==
  /\ task[r].pc = "connect"
  /\ IF ok
     THEN /\ heap' = [heap EXCEPT !.pools[task[r].held].checkedOut = @ + 1]
          /\ Awaits(r, "query", "query", task[r].held)
     ELSE /\ Throws(r, "query", PoolConnectError)
          /\ UNCHANGED heap
  /\ UNCHANGED <<redisClient, pool, rateVars>>

\* a query that releases its client only when the statement succeeded
queryStatementNoFinally(r, ok) ==
  /\ task[r].pc = "query"
  /\ IF ok
     THEN /\ heap' = [heap EXCEPT !.pools[task[r].held].checkedOut = @ - 1]
          /\ Returns(r, "query", Some(task[r].held))
     ELSE /\ Throws(r, "query", HistoryStoreError)
          /\ UNCHANGED heap
  /\ UNCHANGED <<redisClient, pool, rateVars>>

\* client.query() settles; finally client.release(); the result returned or
\* the error thrown
queryStatement(r, ok) ==
  /\ task[r].pc = "query"
  /\ heap' = [heap EXCEPT !.pools[task[r].held].checkedOut = @ - 1]
  /\ IF ok
     THEN Returns(r, "query", Some(task[r].held))
     ELSE Throws(r, "query", HistoryStoreError)
  /\ UNCHANGED <<redisClient, pool, rateVars>>

NextLifecycle ==
  \/ \E r \in Reqs : connectRedis(r)
  \/ \E r \in Reqs : getRedisClient(r)
  \/ \E r \in Reqs : disconnectRedis(r)
  \/ \E r \in Reqs, ok \in BOOLEAN : redisQuit(r, ok)
  \/ \E r \in Reqs : connectDatabase(r)
  \/ \E r \in Reqs, ok \in BOOLEAN : testConnect(r, ok)
  \/ \E r \in Reqs : getPool(r)
  \/ \E r \in Reqs : disconnectDatabase(r)
  \/ \E r \in Reqs, ok \in BOOLEAN : poolEnd(r, ok)
  \/ \E r \in Reqs : query(r)
  \/ \E r \in Reqs, ok \in BOOLEAN : queryConnect(r, ok)
  \/ \E r \in Reqs, ok \in BOOLEAN : queryStatement(r, ok)

SpecLifecycle == Init /\ [][NextLifecycle]_vars

(***************************************************************************)
(* fetchRateWithAggregation on its own: one call, given any three provider *)
(* replies.  The replies are kept beside the settlements they lead to.     *)
(***************************************************************************)
\* the (baseCurrency, targetCurrency) arguments of the aggregation
AggregationInputs == {<<"usd", "eur">>, <<"EUR", "Usd">>}

\* what the providers may answer: rates in the proportion 1.10 : 1.12 : 1.14,
\* a zero rate, a negative rate, a rate for another currency, no rate
AggregationReplies ==
  [p \in ProviderNames |->
     CASE p = "fixer" ->
            FixerReplies({"EUR", "USD"}, {Zero, FromTicks(-Quantum), FromTicks(110 * Quantum)})
       [] p = "frankfurter" -> FrankfurterReplies({"EUR"}, {Zero, FromTicks(112 * Quantum)})
       [] p = "currencyapi" -> CurrencyAPIReplies({"EUR"}, {Zero, FromTicks(114 * Quantum)})]

AggregationRepliesOf(p) == AggregationReplies[p]

InitAggregation ==
  /\ now = 0
  /\ cache = {}
  /\ history = {}
  /\ calls = 0
  /\ live = {}
  /\ pc = [r \in Reqs |-> IF r = "r1" THEN "providers" ELSE "idle"]
  /\ arg \in {[r \in Reqs |-> IF r = "r1" THEN input ELSE <<"", "">>] :
                input \in AggregationInputs}
  /\ cached = [r \in Reqs |-> None]
  /\ settled = [r \in Reqs |-> NothingSettled]
  /\ apiResult = [r \in Reqs |-> None]
  /\ result = [r \in Reqs |-> Pending]
  /\ conversion = [r \in Reqs |-> NoConversion]
  /\ report = None
  /\ removed = None
  /\ clearing = NotClearing
  /\ ops = [r \in Reqs |-> << >>]
  /\ seen = [r \in Reqs |-> NothingSeen]
  /\ replied = [r \in Reqs |-> NothingSettled]
  /\ completed = [r \in Reqs |-> << >>]
  /\ redisClient = None
  /\ pool = None
  /\ heap = NoInstances
  /\ task = [r \in Reqs |-> NoTask]
  /\ data = [r \in Reqs |-> None]

\* provider p answers the request of its client, and the client's promise
\* settles
ProviderReplies(r, p) ==
  /\ pc[r] = "providers"
  /\ ~IsSome(settled[r][p])
  /\ \E reply \in AggregationRepliesOf(p) :
        /\ replied' = [replied EXCEPT ![r][p] = Some(reply)]
        /\ settled' = [settled EXCEPT ![r][p] = Some(fetchFrom(p, arg[r][2], reply))]
  /\ completed' = [completed EXCEPT ![r] = Append(completed[r], p)]
  /\ UNCHANGED <<now, cache, history, calls, live, pc, arg, cached, apiResult, result,
                 ops, seen, conversion, report, removed, clearing,
                 redisClient, pool, heap, task, data>>

\* an aggregation that returns as soon as one provider has succeeded, taking
\* the providers still pending for failed
AggregatedOnFirstSuccess(r) ==
  /\ pc[r] = "providers"
  /\ \/ \A p \in ProviderNames : IsSome(settled[r][p])
     \/ \E p \in ProviderNames : /\ IsSome(settled[r][p])
                                 /\ Get(settled[r][p]).value.success
  /\ apiResult' = [apiResult EXCEPT ![r] =
                     Some(fetchRateWithAggregation(
                            [p \in ProviderNames |->
                               IF IsSome(settled[r][p]) THEN Get(settled[r][p]) ELSE Rejected],
                            now))]
  /\ pc' = [pc EXCEPT ![r] = "aggregated"]
  /\ UNCHANGED <<now, cache, history, calls, live, arg, cached, settled, result, ops,
                 seen, replied, completed,
                 redisClient, pool, heap, task, data, conversion, report, removed, clearing>>

\* an aggregation that takes the results in the order in which the promises
\* settled
AggregatedAsCompleted(r) ==
  /\ pc[r] = "providers"
  /\ \A p \in ProviderNames : IsSome(settled[r][p])
  /\ apiResult' = [apiResult EXCEPT ![r] =
                     Some(Aggregate(successfulResults(Get(settled[r][completed[r][1]]),
                                                     Get(settled[r][completed[r][2]]),
                                                     Get(settled[r][completed[r][3]])),
                                    now))]
  /\ pc' = [pc EXCEPT ![r] = "aggregated"]
  /\ UNCHANGED <<now, cache, history, calls, live, arg, cached, settled, result, ops,
                 seen, replied, completed,
                 redisClient, pool, heap, task, data, conversion, report, removed, clearing>>

\* Promise.allSettled resolves; fetchRateWithAggregation returns
Aggregated(r) ==
  /\ pc[r] = "providers"
  /\ \A p \in ProviderNames : IsSome(settled[r][p])
  /\ apiResult' = [apiResult EXCEPT ![r] =
                     Some(fetchRateWithAggregation(
                            [p \in ProviderNames |-> Get(settled[r][p])], now))]
  /\ pc' = [pc EXCEPT ![r] = "aggregated"]
  /\ UNCHANGED <<now, cache, history, calls, live, arg, cached, settled, result, ops,
                 seen, replied, completed,
                 redisClient, pool, heap, task, data, conversion, report, removed, clearing>>

NextAggregation ==
  \/ \E r \in Reqs, p \in ProviderNames : ProviderReplies(r, p)
  \/ \E r \in Reqs : Aggregated(r)

SpecAggregation == InitAggregation /\ [][NextAggregation]_vars

(***************************************************************************)
(* fetchRateWithFallback on its own: one call, given any provider replies. *)
(* pc is the provider whose client the call awaits, or "returned".         *)
(***************************************************************************)
\* the order in which fetchRateWithFallback calls the clients
FallbackOrder == <<"fixer", "frankfurter", "currencyapi">>

\* the place of a provider in the order
FallbackPlace(p) == CHOOSE i \in 1..Len(FallbackOrder) : FallbackOrder[i] = p

\* the request fetchRateWithFallback has provider p's client send
FallbackRequest(r, p) == <<Op("provider", arg[r][1], arg[r][2], 0, p)>>

InitFallback ==
  /\ now = 0
  /\ cache = {}
  /\ history = {}
  /\ calls = 0
  /\ live = {}
  /\ pc = [r \in Reqs |-> IF r = "r1" THEN FallbackOrder[1] ELSE "idle"]
  /\ arg \in {[r \in Reqs |-> IF r = "r1" THEN input ELSE <<"", "">>] :
                input \in AggregationInputs}
  /\ cached = [r \in Reqs |-> None]
  /\ settled = [r \in Reqs |-> NothingSettled]
  /\ apiResult = [r \in Reqs |-> None]
  /\ result = [r \in Reqs |-> Pending]
  /\ conversion = [r \in Reqs |-> NoConversion]
  /\ report = None
  /\ removed = None
  /\ clearing = NotClearing
  /\ ops = [r \in Reqs |->
              IF r = "r1" THEN <<Op("provider", arg[r][1], arg[r][2], 0, FallbackOrder[1])>>
              ELSE << >>]
  /\ seen = [r \in Reqs |-> NothingSeen]
  /\ replied = [r \in Reqs |-> NothingSettled]
  /\ completed = [r \in Reqs |-> << >>]
  /\ redisClient = None
  /\ pool = None
  /\ heap = NoInstances
  /\ task = [r \in Reqs |-> NoTask]
  /\ data = [r \in Reqs |-> None]

\* a fallback that asks every provider before it returns
FallbackReturnsAtEnd(response, p) == FallbackPlace(p) = Len(FallbackOrder)

\* whether fetchRateWithFallback returns once provider p's client has
\* answered: if (xResult.success) return xResult; and after the last, return
FallbackReturns(response, p) ==
  response.success \/ FallbackPlace(p) = Len(FallbackOrder)

\* what it returns then: the client's response, or the failure of all
FallbackResult(response) ==
  IF response.success THEN response ELSE ApiResponse(FALSE, Zero, "none", None)

\* provider p answers, its client returns, and fetchRateWithFallback returns
\* or calls the next client
fetchRateWithFallback(r, p) ==
  /\ pc[r] = p
  /\ \E reply \in AggregationRepliesOf(p) :
        LET settlement == fetchFrom(p, arg[r][2], reply)
        IN  /\ replied' = [replied EXCEPT ![r][p] = Some(reply)]
            /\ settled' = [settled EXCEPT ![r][p] = Some(settlement)]
            /\ IF FallbackReturns(settlement.value, p)
               THEN /\ apiResult' = [apiResult EXCEPT ![r] =
                                       Some(FallbackResult(settlement.value))]
                    /\ pc' = [pc EXCEPT ![r] = "returned"]
                    /\ UNCHANGED ops
               ELSE /\ pc' = [pc EXCEPT ![r] = FallbackOrder[FallbackPlace(p) + 1]]
                    /\ ops' = [ops EXCEPT ![r] =
                                 ops[r] \o FallbackRequest(r, FallbackOrder[FallbackPlace(p) + 1])]
                    /\ UNCHANGED apiResult
  /\ UNCHANGED <<now, cache, history, calls, live, arg, cached, result, seen, conversion,
                 report, removed, clearing, completed, redisClient, pool, heap, task, data>>

NextFallback == \E r \in Reqs, p \in ProviderNames : fetchRateWithFallback(r, p)

SpecFallback == InitFallback /\ [][NextFallback]_vars

(***************************************************************************)
(* convertCurrency(baseCurrency, targetCurrency, amount) once its           *)
(* getExchangeRate call has ended: the arithmetic on its own, for amounts  *)
(* given in thousandths and rates that are the numbers nearest to decimals *)
(* given in thousandths.                                                   *)
(***************************************************************************)
\* the amounts, in thousandths: every amount up to MaxAmount, and 100
ConvertAmounts == (1..MaxAmount) \cup {100 * 1000}

\* the rates, in thousandths: 0.925, 1 and 1.1
ConvertRates == {925, 1000, 1100}

\* the numbers of the rates
ConvertNumbers == [rate \in ConvertRates |-> FromDecimal(rate, 3)]

\* the Quotes getExchangeRate may have returned
ConvertQuotes ==
  {Quote("USD", "EUR", ConvertNumbers[rate], "aggregated(fixer+frankfurter)", 0, fc) :
     rate \in ConvertRates, fc \in BOOLEAN}
  \cup {Quote("USD", "EUR", ConvertNumbers[rate], "fixer (stale)", 1, FALSE) :
          rate \in ConvertRates}

InitConvert ==
  /\ now = 1
  /\ cache = {}
  /\ history = {}
  /\ calls = 1
  /\ live = {"r1"}
  /\ pc = [r \in Reqs |-> IF r = "r1" THEN "done" ELSE "idle"]
  /\ arg = [r \in Reqs |-> IF r = "r1" THEN <<"usd", "eur">> ELSE <<"", "">>]
  /\ cached = [r \in Reqs |-> None]
  /\ settled = [r \in Reqs |-> NothingSettled]
  /\ apiResult = [r \in Reqs |-> None]
  /\ result \in {[r \in Reqs |-> IF r = "r1" THEN Return(q) ELSE Pending] :
                   q \in ConvertQuotes}
  /\ conversion \in {[r \in Reqs |-> IF r = "r1"
                                       THEN [amount |-> Some(a), result |-> ConversionPending,
                                             before |-> 0]
                                       ELSE NoConversion] :
                       a \in ConvertAmounts}
  /\ report = None
  /\ removed = None
  /\ clearing = NotClearing
  /\ ops = [r \in Reqs |-> << >>]
  /\ seen = [r \in Reqs |-> NothingSeen]
  /\ replied = [r \in Reqs |-> NothingSettled]
  /\ completed = [r \in Reqs |-> << >>]
  /\ redisClient = None
  /\ pool = None
  /\ heap = NoInstances
  /\ task = [r \in Reqs |-> NoTask]
  /\ data = [r \in Reqs |-> None]

NextConvert == \E r \in Reqs : convertCurrency(r)

SpecConvert == InitConvert /\ [][NextConvert]_vars

(***************************************************************************)
(* The History Store's queries by age, getRateHistory and deleteOldRates,  *)
(* two days after the service started, over histories whose records were   *)
(* created around the hours and the days asked for.                        *)
(***************************************************************************)
\* a day in milliseconds
DayMs == HoursMs(24)

\* days in milliseconds
DaysMs(days) == days * DayMs

\* the clock of the queries
HistoryNow == DaysMs(2)

\* the instants the records were created at: at the start, a day and a
\* millisecond ago, a day ago, an hour ago, a millisecond ago
HistoryInstants ==
  {0, HistoryNow - DayMs - 1, HistoryNow - DayMs, HistoryNow - HoursMs(1), HistoryNow - 1}

\* the records saveRate may have written
HistoryRows ==
  {ExchangeRate(toUpperCase(i[1]), toUpperCase(i[2]), Quantum, "aggregated(fixer)", at) :
     i \in RequestInputs, at \in HistoryInstants}

\* the entry setRate wrote a millisecond ago, if it wrote one
HistoryCaches ==
  {{},
   {[key |-> getCacheKey("USD", "EUR"),
     text |-> JSONstringify(CachedRate("USD", "EUR", FromTicks(Quantum),
                                       "aggregated(fixer)", HistoryNow - 1)),
     expiresAt |-> HistoryNow - 1 + ttlSeconds * 1000,
     writer |-> MaxCalls,
     written |-> CachedRate("USD", "EUR", FromTicks(Quantum), "aggregated(fixer)",
                            HistoryNow - 1),
     answer |-> None]}}

\* the `hours` and the `daysToKeep` asked for
QueryHours == {1, 24}
QueryDays == {0, 1, 2}

InitHistory ==
  /\ now = HistoryNow
  /\ cache \in HistoryCaches
  /\ history \in SUBSET HistoryRows
  /\ calls = MaxCalls
  /\ live = {}
  /\ pc = [r \in Reqs |-> "idle"]
  /\ arg = [r \in Reqs |-> <<"", "">>]
  /\ cached = [r \in Reqs |-> None]
  /\ settled = [r \in Reqs |-> NothingSettled]
  /\ apiResult = [r \in Reqs |-> None]
  /\ result = [r \in Reqs |-> Pending]
  /\ conversion = [r \in Reqs |-> NoConversion]
  /\ report = None
  /\ removed = None
  /\ clearing = NotClearing
  /\ ops = [r \in Reqs |-> << >>]
  /\ seen = [r \in Reqs |-> NothingSeen]
  /\ replied = [r \in Reqs |-> NothingSettled]
  /\ completed = [r \in Reqs |-> << >>]
  /\ redisClient = None
  /\ pool = None
  /\ heap = NoInstances
  /\ task = [r \in Reqs |-> NoTask]
  /\ data = [r \in Reqs |-> None]

\* what deleteOldRates returns or throws
RemovedReturn(count) == [kind |-> "count", value |-> count, message |-> ""]
RemovedThrow(msg) == [kind |-> "error", value |-> 0, message |-> msg]

\* a DELETE that takes the rows exactly as old as asked with the older ones
DeletedRowsOrAsOld(daysToKeep) ==
  {row \in history : row.createdAt <= now - DaysMs(daysToKeep)}

\* DELETE FROM exchange_rates WHERE created_at < NOW() - INTERVAL '1 day' * $1
DeletedRows(daysToKeep) == {row \in history : row.createdAt < now - DaysMs(daysToKeep)}

\* result.rowCount || 0
rowCountOrZero(rowCount) == IF rowCount = 0 THEN 0 ELSE rowCount

\* databaseService.deleteOldRates(daysToKeep)
deleteOldRates(daysToKeep, up) ==
  /\ IF up
     THEN /\ history' = history \ DeletedRows(daysToKeep)
          /\ removed' = Some(RemovedReturn(rowCountOrZero(Cardinality(DeletedRows(daysToKeep)))))
     ELSE /\ removed' = Some(RemovedThrow(HistoryStoreError))
          /\ UNCHANGED history
  /\ UNCHANGED <<now, cache, calls, live, pc, arg, cached, settled, apiResult, result,
                 conversion, report, clearing, ops, seen, replied, completed,
                 redisClient, pool, heap, task, data>>

NextHistory ==
  \/ \E input \in RequestInputs, hours \in QueryHours, up \in BOOLEAN :
        getRateHistory(input, hours, up)
  \/ \E daysToKeep \in QueryDays, up \in BOOLEAN : deleteOldRates(daysToKeep, up)

SpecHistory == InitHistory /\ [][NextHistory]_vars

(***************************************************************************)
(* Vocabulary of the properties.                                           *)
(***************************************************************************)
\* the call in slot r has ended
Done(r) == pc[r] = "done"

\* the call in slot r ended because a Cache Store or History Store operation
\* failed
StoreFailed(r) ==
  /\ result[r].kind = "error"
  /\ result[r].message \in {CacheStoreError, HistoryStoreError, DuplicateKeyError}

\* the call in slot r read the cache and found an entry / found none
Hit(r) == IsSome(seen[r].entry) /\ IsSome(Get(seen[r].entry))
Miss(r) == IsSome(seen[r].entry) /\ ~IsSome(Get(seen[r].entry))
HitEntry(r) == Get(Get(seen[r].entry))

\* the operations of a kind that the call in slot r performed
OpsNamed(r, name) == {i \in 1..Len(ops[r]) : ops[r][i].op = name}

\* the providers that returned success to the call in slot r
Succeeded(r) ==
  {p \in ProviderNames : /\ IsSome(settled[r][p])
                         /\ Get(settled[r][p]).status = "fulfilled"
                         /\ Get(settled[r][p]).value.success}

\* the arithmetic mean of the rates the succeeding providers returned, as
\* the arithmetic of numbers gives it: the rates added one to the other, in
\* the order fixer, frankfurter, currencyapi, and the sum divided by their
\* number (a provider that did not succeed adds nothing)
RateOf(r, p) == IF p \in Succeeded(r) THEN Get(settled[r][p]).value.rate ELSE Zero
SumOfSucceeded(r) ==
  FloatPlus(FloatPlus(RateOf(r, "fixer"), RateOf(r, "frankfurter")), RateOf(r, "currencyapi"))
MeanOfSucceeded(r) == FloatOver(SumOfSucceeded(r), Cardinality(Succeeded(r)))

\* x < y, for numbers that are not negative
Below(x, y) ==
  /\ y # Zero
  /\ \/ x = Zero
     \/ x.e < y.e
     \/ x.e = y.e /\ BigLess(x.m, y.m)

\* x > 0
Positive(x) == x # Zero /\ x.sign = 1

\* the number that a decimal of `kept` ticks reads as
NumberOf(kept) == FromDecimal(kept \div Quantum, 10)

\* the pair's history records the call in slot r found when it read the
\* history
RowsSeen(r) == IF IsSome(seen[r].rows) THEN Get(seen[r].rows) ELSE {}

(***************************************************************************)
(* Properties of getExchangeRate, under Spec.                              *)
(***************************************************************************)
\* C1: a call that finds an entry for its pair when it reads the cache
\* performs nothing but cache reads (no provider is called, no history record
\* is read or appended, no cache entry is written or deleted by it), and,
\* the cache answering, it returns the rate, source and timestamp that were
\* written into that entry, with fromCache = true.
CacheHitReturnsEntry ==
  \A r \in Reqs :
     Hit(r) =>
       /\ \A i \in 1..Len(ops[r]) : ops[r][i].op \in {"cache.get", "cache.ttl"}
       /\ Done(r) /\ ~StoreFailed(r) =>
            /\ result[r].kind = "quote"
            /\ result[r].quote.rate = HitEntry(r).written.rate
            /\ result[r].quote.source = HitEntry(r).written.source
            /\ result[r].quote.timestamp = HitEntry(r).written.timestamp
            /\ result[r].quote.fromCache = TRUE

\* a call has returned the entry it found, an entry written after the clock
\* moved
CacheHitReturned ==
  \E r \in Reqs :
     /\ Done(r) /\ Hit(r)
     /\ result[r].kind = "quote"
     /\ result[r].quote.fromCache
     /\ HitEntry(r).written.timestamp > 0

\* C2: a call that finds no cache entry and to which at least one provider
\* returns success returns, the stores answering, a Quote of the requested
\* pair with fromCache = false whose rate is the arithmetic mean of the
\* succeeding providers' rates (the sum of the numbers divided by their
\* number, each the nearest number); during the call the cache receives exactly
\* one write and the history exactly one append, both carrying the Quote's
\* pair, rate and source.
FreshQuoteIsMeanWrittenOnce ==
  \A r \in Reqs :
     Done(r) /\ Miss(r) /\ Succeeded(r) # {} /\ ~StoreFailed(r) =>
       /\ result[r].kind = "quote"
       /\ result[r].quote.fromCache = FALSE
       /\ result[r].quote.baseCurrency = UpperCased(arg[r][1])
       /\ result[r].quote.targetCurrency = UpperCased(arg[r][2])
       /\ result[r].quote.rate = MeanOfSucceeded(r)
       /\ Cardinality(OpsNamed(r, "cache.set")) = 1
       /\ Cardinality(OpsNamed(r, "history.insert")) = 1
       /\ \A i \in OpsNamed(r, "cache.set") \cup OpsNamed(r, "history.insert") :
             /\ ops[r][i].base = result[r].quote.baseCurrency
             /\ ops[r][i].target = result[r].quote.targetCurrency
             /\ ops[r][i].rate = result[r].quote.rate
             /\ ops[r][i].source = result[r].quote.source

\* a call given "usd", "eur" has returned the mean of two providers
FreshQuoteOfTwoReturned ==
  \E r \in Reqs :
     /\ Done(r) /\ Miss(r)
     /\ arg[r] = <<"usd", "eur">>
     /\ Succeeded(r) = {"fixer", "frankfurter"}
     /\ result[r].kind = "quote"

\* C3: a call that finds no cache entry, to which no provider returns
\* success, and that finds at least one history record of its pair returns
\* the rate of the record with the greatest created-at, its source followed
\* by " (stale)", its created-at as timestamp and fromCache = false, and
\* appends no history record.
StaleQuoteIsLatestRecord ==
  \A r \in Reqs :
     Done(r) /\ Miss(r) /\ Succeeded(r) = {} /\ RowsSeen(r) # {} /\ ~StoreFailed(r) =>
       /\ result[r].kind = "quote"
       /\ result[r].quote.fromCache = FALSE
       /\ OpsNamed(r, "history.insert") = {}
       /\ \E row \in RowsSeen(r) :
             /\ \A other \in RowsSeen(r) : other.createdAt <= row.createdAt
             /\ result[r].quote.rate = NumberOf(row.rate)
             /\ result[r].quote.source = row.source \o " (stale)"
             /\ result[r].quote.timestamp = row.createdAt

\* a call has fallen back on a history of two records with different rates
StaleQuoteOfTwoReturned ==
  \E r \in Reqs :
     /\ Done(r) /\ Miss(r) /\ Succeeded(r) = {}
     /\ result[r].kind = "quote"
     /\ \E row, other \in RowsSeen(r) :
           row.createdAt < other.createdAt /\ row.rate # other.rate

\* C4: a call that finds no cache entry, to which no provider returns
\* success, and that finds no history record of its pair fails with the
\* resolution-failure error, whose message names the uppercased base and
\* target it was given, and writes nothing to the cache or the history.
NothingLeftFails ==
  \A r \in Reqs :
     Done(r) /\ Miss(r) /\ Succeeded(r) = {} /\ IsSome(seen[r].rows) /\ RowsSeen(r) = {} =>
       /\ result[r].kind = "error"
       /\ result[r].message =
            "Unable to fetch exchange rate for " \o UpperCased(arg[r][1])
              \o " → " \o UpperCased(arg[r][2])
       /\ OpsNamed(r, "cache.set") = {}
       /\ OpsNamed(r, "history.insert") = {}

\* a call given lower-case codes has failed for want of any source
NothingLeftFailed ==
  \E r \in Reqs :
     /\ Done(r) /\ Miss(r) /\ Succeeded(r) = {}
     /\ IsSome(seen[r].rows) /\ RowsSeen(r) = {}
     /\ arg[r] = <<"usd", "eur">>
     /\ result[r].kind = "error"

\* C5: when no Cache Store or History Store operation of the call fails, the
\* call fails only if it found no cache entry, no provider returned success
\* and it found no history record of its pair; in every other case it
\* returns a Quote.
FailsOnlyWhenExhausted ==
  \A r \in Reqs :
     Done(r) /\ ~StoreFailed(r) =>
       /\ result[r].kind \in {"quote", "error"}
       /\ result[r].kind = "error" <=>
            /\ Miss(r)
            /\ Succeeded(r) = {}
            /\ IsSome(seen[r].rows) /\ RowsSeen(r) = {}

\* a call has failed for a pair without history while the history holds
\* records of the opposite pair
FailedBesideOtherHistory ==
  \E r \in Reqs :
     /\ Done(r) /\ ~StoreFailed(r)
     /\ result[r].kind = "error"
     /\ history # {}

\* the source label ends in " (stale)"
IsStale(src) == Len(src) >= 8 /\ SubSeq(src, Len(src) - 7, Len(src)) = " (stale)"

\* the step in which the call in slot r returns a freshly aggregated Quote
FreshReturn(r) ==
  /\ pc[r] # "done"
  /\ pc'[r] = "done"
  /\ result'[r].kind = "quote"
  /\ ~result'[r].quote.fromCache
  /\ ~IsStale(result'[r].quote.source)

\* `kept` is what a column of ten decimal places keeps of the number
\* `value`: the nearest whole number of units of the tenth place, the
\* farther from zero of two equally near.  The decimal the number is written
\* as is half-way between two units exactly when the number is the one
\* nearest to that half-way decimal, so `value` lies from kept - 1/2 unit
\* (included) to kept + 1/2 unit (excluded) in magnitude.
KeptOf(kept, value) ==
  LET units == Abs(kept) \div Quantum
      size == Double(1, value.m, value.e)
  IN  /\ kept % Quantum = 0
      /\ units > 0 => Sign(kept) = value.sign
      /\ units > 0 => ~Below(size, FromDecimal(10 * units - 5, 11))
      /\ Below(size, FromDecimal(10 * units + 5, 11))

\* C6, as stated: when a call returns a freshly aggregated Quote, the history
\* holds a record with that Quote's pair, rate and source (the record's rate
\* reads as the Quote's rate).
FreshQuoteRecordedExactly ==
  [][\A r \in Reqs :
       FreshReturn(r) =>
         \E row \in history' :
            /\ row.baseCurrency = result'[r].quote.baseCurrency
            /\ row.targetCurrency = result'[r].quote.targetCurrency
            /\ row.source = result'[r].quote.source
            /\ NumberOf(row.rate) = result'[r].quote.rate]_vars

\* C6, amended: when a call returns a freshly aggregated Quote, the history
\* holds a record with that Quote's pair and source whose rate is the Quote's
\* rate rounded to the ten decimal places the rate column keeps.
FreshQuoteRecordedRounded ==
  [][\A r \in Reqs :
       FreshReturn(r) =>
         \E row \in history' :
            /\ row.baseCurrency = result'[r].quote.baseCurrency
            /\ row.targetCurrency = result'[r].quote.targetCurrency
            /\ row.source = result'[r].quote.source
            /\ KeptOf(row.rate, result'[r].quote.rate)]_vars

\* a call has returned a fresh Quote whose rate has more decimals than the
\* column keeps, and the record of it holds another rate
FreshQuoteRecordedOtherRate ==
  \E r \in Reqs :
     /\ Done(r)
     /\ result[r].kind = "quote"
     /\ ~result[r].quote.fromCache
     /\ ~IsStale(result[r].quote.source)
     /\ \E row \in history :
           /\ row.baseCurrency = result[r].quote.baseCurrency
           /\ row.targetCurrency = result[r].quote.targetCurrency
           /\ row.source = result[r].quote.source
           /\ row.createdAt = now
           /\ NumberOf(row.rate) # result[r].quote.rate

\* C7, as stated: a call served from a cache entry returns the rate, source
\* and timestamp of the Quote that the call which wrote the entry returned,
\* and causes no provider call and no history write.
RepeatedCallsAgree ==
  \A r \in Reqs :
     Done(r) /\ Hit(r) /\ ~StoreFailed(r) /\ IsSome(HitEntry(r).answer) =>
       /\ result[r].kind = "quote"
       /\ result[r].quote.rate = Get(HitEntry(r).answer).rate
       /\ result[r].quote.source = Get(HitEntry(r).answer).source
       /\ result[r].quote.timestamp = Get(HitEntry(r).answer).timestamp
       /\ OpsNamed(r, "provider") = {}
       /\ OpsNamed(r, "history.insert") = {}

(***************************************************************************)
(* Properties of the provider clients and of fetchRateWithAggregation,     *)
(* under SpecAggregation.                                                  *)
(***************************************************************************)
\* the failure modes of a provider request for targetCurrency
NetworkFailure(reply) == reply.http \in {"networkError", "timeout", "badStatus"}
MalformedPayload(reply) == reply.http = "ok" /\ ~reply.hasRates
MissingOrZeroRate(reply, targetCurrency) ==
  /\ reply.http = "ok" /\ reply.hasRates
  /\ \/ reply.code # UpperCased(targetCurrency)
     \/ reply.value = None
     \/ reply.value = Some(Zero)
NonSuccessStatus(p, reply) == p = "fixer" /\ reply.http = "ok" /\ ~reply.success
UnparsableTimestamp(p, reply) ==
  p \in {"fixer", "frankfurter"} /\ reply.http = "ok" /\ reply.stamp = None

FailureMode(p, reply, targetCurrency) ==
  \/ NetworkFailure(reply)
  \/ MalformedPayload(reply)
  \/ MissingOrZeroRate(reply, targetCurrency)
  \/ NonSuccessStatus(p, reply)
  \/ UnparsableTimestamp(p, reply)

\* C8: no provider client propagates an error (its promise is fulfilled,
\* whatever the provider replied), and for every failure mode -- network
\* error, timeout, malformed payload, missing or zero rate for the target,
\* non-success provider status, unparsable provider timestamp -- it returns
\* {success: false, rate: 0, source: the provider's name}.
ClientsAbsorbFailures ==
  \A r \in Reqs, p \in ProviderNames :
     IsSome(replied[r][p]) =>
       /\ IsSome(settled[r][p])
       /\ Get(settled[r][p]).status = "fulfilled"
       /\ FailureMode(p, Get(replied[r][p]), arg[r][2]) =>
            Get(settled[r][p]).value = ApiResponse(FALSE, Zero, p, None)

\* the three clients have absorbed a non-success status, an unparsable
\* timestamp beside a good rate, and a timeout
ThreeFailuresAbsorbed ==
  \E r \in Reqs :
     /\ \A p \in ProviderNames : IsSome(replied[r][p]) /\ ~Get(settled[r][p]).value.success
     /\ NonSuccessStatus("fixer", Get(replied[r]["fixer"]))
     /\ UnparsableTimestamp("frankfurter", Get(replied[r]["frankfurter"]))
     /\ ~MissingOrZeroRate(Get(replied[r]["frankfurter"]), arg[r][2])
     /\ Get(replied[r]["currencyapi"]).http = "timeout"

\* C9: fetchRateWithAggregation reports success if and only if at least one
\* of the three providers returned success, whichever of the 8 combinations
\* of provider success and failure occurs.
AggregationSucceedsIffOneDoes ==
  \A r \in Reqs :
     pc[r] = "aggregated" =>
       (Get(apiResult[r]).success <=> Succeeded(r) # {})

\* the aggregation has succeeded with the first and the last provider
\* failing
AggregatedDespiteTwoFailures ==
  \E r \in Reqs :
     /\ pc[r] = "aggregated"
     /\ Succeeded(r) = {"frankfurter"}
     /\ Get(apiResult[r]).success

\* the label of every set of succeeding providers
LabelOf ==
  [S \in (SUBSET ProviderNames) \ {{}} |->
     CASE S = {"fixer"} -> "aggregated(fixer)"
       [] S = {"frankfurter"} -> "aggregated(frankfurter)"
       [] S = {"currencyapi"} -> "aggregated(currencyapi)"
       [] S = {"fixer", "frankfurter"} -> "aggregated(fixer+frankfurter)"
       [] S = {"fixer", "currencyapi"} -> "aggregated(fixer+currencyapi)"
       [] S = {"frankfurter", "currencyapi"} -> "aggregated(frankfurter+currencyapi)"
       [] S = ProviderNames -> "aggregated(fixer+frankfurter+currencyapi)"]

\* C10: when at least one provider succeeds, fetchRateWithAggregation returns
\* success with the arithmetic mean of exactly the succeeding providers'
\* rates and the source "aggregated(" + the succeeding providers' names
\* joined by "+" + ")", which holds no failed provider's name.
AggregationIsMeanOfSucceeding ==
  \A r \in Reqs :
     pc[r] = "aggregated" /\ Succeeded(r) # {} =>
       /\ Get(apiResult[r]).success
       /\ Get(apiResult[r]).rate = MeanOfSucceeded(r)
       /\ Get(apiResult[r]).source = LabelOf[Succeeded(r)]

\* providers returning 1.10, 1.12 and a failure have given 1.11 and a label
\* naming the first two
MeanOfTwoBesideFailure ==
  \E r \in Reqs :
     /\ pc[r] = "aggregated"
     /\ ~Get(settled[r]["currencyapi"]).value.success
     /\ Get(apiResult[r]).source = "aggregated(fixer+frankfurter)"
     /\ Get(settled[r]["fixer"]).value.rate = NumberOf(110 * Quantum)
     /\ Get(settled[r]["frankfurter"]).value.rate = NumberOf(112 * Quantum)
     /\ Get(apiResult[r]).rate = NumberOf(111 * Quantum)

\* C11: when no provider succeeds, fetchRateWithAggregation returns
\* {success: false, rate: 0, source: "none"} (and no timestamp), whatever
\* the number and kind of the provider failures.
AggregationOfNoneIsNone ==
  \A r \in Reqs :
     pc[r] = "aggregated" /\ Succeeded(r) = {} =>
       Get(apiResult[r]) = ApiResponse(FALSE, Zero, "none", None)

\* the aggregation has returned after a network error, a zero rate and a
\* payload without data
AggregatedThreeFailures ==
  \E r \in Reqs :
     /\ pc[r] = "aggregated"
     /\ Succeeded(r) = {}
     /\ Get(replied[r]["fixer"]).http = "networkError"
     /\ Get(replied[r]["frankfurter"]).value = Some(Zero)
     /\ MalformedPayload(Get(replied[r]["currencyapi"]))
     /\ Get(apiResult[r]).source = "none"

(***************************************************************************)
(* Properties of concurrent calls, under SpecConcurrent.                   *)
(***************************************************************************)
\* the call in slot r ended because a store did not answer
StoreOutage(r) ==
  result[r].kind = "error" /\ result[r].message \in {CacheStoreError, HistoryStoreError}

\* the calls in slots r and o, for the same pair, ran concurrently, both
\* missed the cache, each had a provider succeed, and both have ended
\* without a store outage
ConcurrentColdPair(r, o) ==
  /\ r # o
  /\ Done(r) /\ Done(o)
  /\ seen[o].call \in seen[r].beside
  /\ base(r) = base(o) /\ target(r) = target(o)
  /\ Miss(r) /\ Miss(o)
  /\ Succeeded(r) # {} /\ Succeeded(o) # {}
  /\ ~StoreOutage(r) /\ ~StoreOutage(o)

\* C12, as stated: two concurrent calls for the same pair that both miss the
\* cache and for each of which a provider succeeds each write a cache entry
\* and append a history row of their own, both return a fresh Quote, and
\* the entry the cache then holds for the pair is the one written last.
ConcurrentColdCallsBothReturn ==
  \A r, o \in Reqs :
     ConcurrentColdPair(r, o) =>
       /\ \A x \in {r, o} :
             /\ result[x].kind = "quote"
             /\ result[x].quote.fromCache = FALSE
             /\ Cardinality(OpsNamed(x, "cache.set")) = 1
             /\ Cardinality(OpsNamed(x, "history.insert")) = 1
       /\ Cardinality(RowsOf(base(r), target(r))) >= 2
       /\ \A e \in cache :
             e.key = getCacheKey(base(r), target(r)) =>
               e.writer \in {seen[r].call, seen[o].call}

(***************************************************************************)
(* Further properties of getExchangeRate, under Spec.                      *)
(***************************************************************************)
\* C13, as stated: every history record and every Quote that getExchangeRate
\* has returned has rate > 0, whatever rates the provider responses carry.
AllRatesPositive ==
  /\ \A row \in history : row.rate > 0
  /\ \A r \in Reqs : result[r].kind = "quote" => Positive(result[r].quote.rate)

(***************************************************************************)
(* The life of a cache entry, under SpecExpiry.                            *)
(***************************************************************************)
\* the step in which the call in slot r gets the cache's answer
CacheAnswers(r) == pc[r] = "getRate" /\ pc'[r] \in {"getTTL", "providers"}

\* the step in which the call in slot r returns the Quote it took from the
\* cache
ReturnsCached(r) == pc[r] = "getTTL" /\ result'[r].kind = "quote"

\* the step writes the entry e: the cache held no entry of its key written by
\* its call
NewEntry(e) == \A c \in cache : c.key # e.key \/ c.writer # e.writer

\* when the entry e was written: its TTL ends ttlSeconds later
WrittenAt(e) == e.expiresAt - ttlSeconds * 1000

\* the entries for the pair of the call in slot r written at most the TTL ago
WithinTTL(r) ==
  {e \in cache : /\ e.key = getCacheKey(base(r), target(r))
                 /\ now - WrittenAt(e) <= ttlSeconds * 1000}

\* C14, as stated: every cache entry is written with the configured TTL (300
\* seconds); no call returns a fromCache = true Quote whose cache write
\* happened more than the TTL before the return; and a call that reads the
\* cache when its pair has no entry written within the TTL takes the
\* provider path.
CachedQuoteWithinTTLAtReturn ==
  [][/\ \A e \in cache' : NewEntry(e) => e.expiresAt = now' + ttlSeconds * 1000
     /\ \A r \in Reqs :
           /\ ReturnsCached(r) =>
                 /\ result'[r].quote.fromCache
                 /\ now' - WrittenAt(HitEntry(r)) <= ttlSeconds * 1000
           /\ (CacheAnswers(r) /\ WithinTTL(r) = {}) => pc'[r] = "providers"]_vars

\* C14, amended: every cache entry is written with the configured TTL (300
\* seconds); a call is served from the cache exactly when, at its cache
\* read, the cache holds an entry for its pair written at most the TTL ago,
\* and otherwise takes the provider path; and the fromCache = true Quote it
\* returns, after one more cache round trip of any length, is the entry it
\* read.
EntriesServedWithinTTL ==
  [][/\ \A e \in cache' : NewEntry(e) => e.expiresAt = now' + ttlSeconds * 1000
     /\ \A r \in Reqs :
           /\ CacheAnswers(r) =>
                 /\ pc'[r] = "getTTL" <=> WithinTTL(r) # {}
                 /\ pc'[r] = "getTTL" =>
                       /\ Get(cached'[r]) \in {e.written : e \in WithinTTL(r)}
                       /\ HitEntry(r)' \in WithinTTL(r)
                 /\ pc'[r] = "providers" =>
                       Cardinality(OpsNamed(r, "provider")') = Len(Providers)
           /\ ReturnsCached(r) =>
                 LET c == HitEntry(r).written
                 IN  result'[r].quote =
                       Quote(c.baseCurrency, c.targetCurrency, c.rate, c.source,
                             c.timestamp, TRUE)]_vars

\* the third call returned, later than the TTL after its write, the entry
\* that the second call wrote after the first call's entry had expired
ReturnedAfterExpiry ==
  \E r \in Reqs :
     /\ seen[r].call = MaxCalls
     /\ result[r].kind = "quote"
     /\ result[r].quote.fromCache
     /\ HitEntry(r).writer = 2
     /\ now - WrittenAt(HitEntry(r)) > ttlSeconds * 1000
     /\ \E row \in RowsOf(base(r), target(r)) : row.createdAt = 0
     /\ \E row \in RowsOf(base(r), target(r)) : row.createdAt = Lapse

(***************************************************************************)
(* Properties of convertCurrency's arithmetic, under SpecConvert.          *)
(***************************************************************************)
\* the conversion in slot r returned
Converted(r) == conversion[r].result.kind = "conversion"

\* amount x rate in hundredths, the half rounded up: amount and rate being
\* in thousandths, the product is in millionths
HalfUpHundredths(amount, rate) == (amount * rate + 5000) \div 10000

\* the decimal, in thousandths, that the number x is the nearest to
ThousandthsOf(x) == CHOOSE rate \in ConvertRates : ConvertNumbers[rate] = x

\* C15: a conversion of a positive amount returns every field of the Quote
\* unchanged, the amount, and as convertedAmount the product amount x rate
\* rounded to the nearest hundredth, the half rounded up.
ConversionIsRoundedProduct ==
  \A r \in Reqs :
     Converted(r) /\ Get(conversion[r].amount) > 0 =>
       LET c == conversion[r].result.value
           q == result[r].quote
       IN  /\ c.baseCurrency = q.baseCurrency
           /\ c.targetCurrency = q.targetCurrency
           /\ c.rate = q.rate
           /\ c.source = q.source
           /\ c.timestamp = q.timestamp
           /\ c.fromCache = q.fromCache
           /\ c.amount = Get(conversion[r].amount)
           /\ c.convertedAmount = HalfUpHundredths(c.amount, ThousandthsOf(q.rate))

(***************************************************************************)
(* Properties of the operations taking currency codes, under SpecService.  *)
(***************************************************************************)
\* a step in which the convertCurrency call of slot r begins / ends
ConversionBegins(r) ==
  /\ IsSome(conversion'[r].amount)
  /\ conversion'[r].result.kind = "pending"
  /\ ~(IsSome(conversion[r].amount) /\ conversion[r].result.kind = "pending")

ConversionEnds(r) ==
  /\ IsSome(conversion[r].amount)
  /\ conversion[r].result.kind = "pending"
  /\ conversion'[r].result.kind # "pending"

\* C16: a conversion fails exactly when its getExchangeRate call failed, and
\* with that call's error; from its beginning to its end exactly one
\* getExchangeRate call was made, and neither its beginning nor its end
\* changes the cache or the history.
ConversionFailsAsItsCall ==
  [][\A r \in Reqs :
       /\ ConversionBegins(r) =>
            /\ calls' = calls + 1
            /\ seen'[r].call = calls + 1
            /\ cache' = cache
            /\ history' = history
       /\ ConversionEnds(r) =>
            /\ (conversion'[r].result.kind = "error") <=> (result[r].kind = "error")
            /\ result[r].kind = "error" =>
                 conversion'[r].result.message = result[r].message
            /\ calls' = conversion[r].before + 1
            /\ seen[r].call = conversion[r].before + 1
            /\ cache' = cache
            /\ history' = history]_vars

\* a conversion failed with the error of a call that found no rate anywhere
ConversionFailedUnresolved ==
  \E r \in Reqs :
     /\ conversion[r].result.kind = "error"
     /\ conversion[r].result.message = ResolutionFailure("USD", "EUR")
     /\ result[r].kind = "error"
     /\ OpsNamed(r, "history.latest") # {}

\* the arguments of a call, in upper case
Uppercased(input) == <<toUpperCase(input[1]), toUpperCase(input[2])>>

\* the cache key of a pair of upper-case codes
KeyOf(pair) == "rate:" \o pair[1] \o ":" \o pair[2]

\* C17: whatever the letter case of the codes given, a getExchangeRate call
\* (made by a request or by convertCurrency) reads and writes the cache key
\* and the history pair of the upper-case codes and returns upper-case
\* codes; getRateHistory returns what the call with the upper-case codes
\* returns from the same state; clearCache deletes what the call with the
\* upper-case codes deletes; the cache and the history hold upper-case
\* codes only.
CaseNormalised ==
  /\ [](/\ \A r \in Reqs :
             LET pair == Uppercased(arg[r])
             IN  /\ \A i \in 1..Len(ops[r]) :
                       ops[r][i].base = pair[1] /\ ops[r][i].target = pair[2]
                 /\ Hit(r) => HitEntry(r).key = KeyOf(pair)
                 /\ \A row \in RowsSeen(r) :
                       row.baseCurrency = pair[1] /\ row.targetCurrency = pair[2]
                 /\ result[r].kind = "quote" =>
                       /\ result[r].quote.baseCurrency = pair[1]
                       /\ result[r].quote.targetCurrency = pair[2]
                 /\ conversion[r].result.kind = "conversion" =>
                       /\ conversion[r].result.value.baseCurrency = pair[1]
                       /\ conversion[r].result.value.targetCurrency = pair[2]
        /\ \A e \in cache : \E input \in ServiceInputs : e.key = KeyOf(Uppercased(input))
        /\ \A row \in history :
             \E input \in ServiceInputs :
                /\ row.baseCurrency = Uppercased(input)[1]
                /\ row.targetCurrency = Uppercased(input)[2]
        /\ \A input \in ServiceInputs, hours \in HistoryHours :
             /\ getRateHistoryResult(input, hours)
                  = getRateHistoryResult(Uppercased(input), hours)
             /\ getRateHistoryResult(input, hours).value.baseCurrency
                  = Uppercased(input)[1]
             /\ getRateHistoryResult(input, hours).value.targetCurrency
                  = Uppercased(input)[2]
        /\ IsSome(report) /\ Get(report).kind = "report" =>
             \E input \in ServiceInputs :
                /\ Get(report).value.baseCurrency = Uppercased(input)[1]
                /\ Get(report).value.targetCurrency = Uppercased(input)[2])
  /\ [][cache' # cache /\ ops' = ops /\ now' = now =>
          \A input \in ServiceInputs :
             clearCache(input) =>
               /\ clearCache(Uppercased(input))
               /\ \A e \in cache' : e.key # KeyOf(Uppercased(input))]_vars

\* a call given lower-case codes was served from the cache while a history
\* report with records of the pair stood
LowerCaseCallHitCache ==
  \E r \in Reqs :
     /\ arg[r] = <<"usd", "eur">>
     /\ Done(r) /\ Hit(r)
     /\ result[r].kind = "quote"
     /\ result[r].quote.baseCurrency = "USD"
     /\ IsSome(report)
     /\ Get(report).kind = "report"
     /\ Get(report).value.dataPoints > 0

(***************************************************************************)
(* Store outages, under Spec.                                              *)
(***************************************************************************)
\* the store operation that failed on the call in slot r, "" if none did
FailedOn(r) == seen[r].failed

\* C18: a call whose cache read (get or ttl) failed ends with the cache
\* store's error, having called no provider and read or written no history;
\* a call whose history read or append failed ends with the history store's
\* error and returns no Quote.
StoreOutageUnmasked ==
  \A r \in Reqs :
     /\ FailedOn(r) \in {"cache.get", "cache.ttl"} =>
          /\ Done(r)
          /\ result[r] = Throw(CacheStoreError)
          /\ OpsNamed(r, "provider") = {}
          /\ OpsNamed(r, "history.insert") = {}
          /\ OpsNamed(r, "history.latest") = {}
     /\ FailedOn(r) \in {"history.latest", "history.insert"} =>
          /\ Done(r)
          /\ result[r].kind = "error"
          /\ result[r].message \in {HistoryStoreError, DuplicateKeyError}

\* a call failed at its cache read while the history held a record of its
\* pair
CacheReadFailedBesideHistory ==
  \E r \in Reqs :
     /\ FailedOn(r) = "cache.get"
     /\ Done(r)
     /\ RowsOf(base(r), target(r)) # {}

(***************************************************************************)
(* The history under the five operations of the core, under SpecCore.      *)
(***************************************************************************)
\* the step appends to the history the aggregation of the call in slot r
AppendsAggregation(r) ==
  /\ pc[r] = "saveRate"
  /\ IsSome(apiResult[r])
  /\ Get(apiResult[r]).success
  /\ Succeeded(r) # {}
  /\ history' = history \cup {InsertedRow(base(r), target(r), Get(apiResult[r]).rate,
                                          Get(apiResult[r]).source)}
  /\ InsertedRow(base(r), target(r), Get(apiResult[r]).rate,
                 Get(apiResult[r]).source) \notin history

\* C19: no step of the service modifies or removes a history record; the
\* history changes only by gaining one record, the record of a call's
\* successful aggregation.
HistoryAppendOnly ==
  [][/\ history \subseteq history'
     /\ history' # history => \E r \in Reqs : AppendsAggregation(r)]_vars

\* two aggregations were recorded, the later for a conversion, and a history
\* report was returned
TwoAppendsBesideOtherCalls ==
  /\ Cardinality(history) = 2
  /\ \E r \in Reqs : Converted(r) /\ OpsNamed(r, "history.insert") # {}
  /\ IsSome(report)
  /\ Get(report).kind = "report"
  /\ Get(report).value.dataPoints = 1

(***************************************************************************)
(* Provider requests, under Spec.                                          *)
(***************************************************************************)
\* the requests the call in slot r sent to provider p
RequestsTo(r, p) == {i \in OpsNamed(r, "provider") : ops[r][i].source = p}

\* the providers reported as failed to the call in slot r
ReportedFailed(r) ==
  {p \in ProviderNames : IsSome(settled[r][p]) /\ p \notin Succeeded(r)}

\* C20: a provider reported as failed for a resolution was sent its request
\* again after the first attempt failed, so at least twice.
FailedProvidersWereRetried ==
  \A r \in Reqs : \A p \in ReportedFailed(r) : Cardinality(RequestsTo(r, p)) >= 2

(***************************************************************************)
(* The queries by age, under SpecHistory.                                  *)
(***************************************************************************)
\* the records of a pair created less than `hours` hours ago
CreatedWithin(pair, hours) ==
  {row \in history : /\ row.baseCurrency = pair[1]
                     /\ row.targetCurrency = pair[2]
                     /\ now - row.createdAt < HoursMs(hours)}

\* the report the step returns is the report of the pair and the hours
IsReportOf(rep, pair, hours) ==
  /\ rep.baseCurrency = pair[1]
  /\ rep.targetCurrency = pair[2]
  /\ rep.period = ToString(hours) \o " hours"
  /\ rep.dataPoints = Cardinality(CreatedWithin(pair, hours))
  /\ Len(rep.history) = rep.dataPoints
  /\ {rep.history[i] : i \in 1..Len(rep.history)}
       = {[rate |-> NumberOf(row.rate), source |-> row.source, timestamp |-> row.createdAt] :
            row \in CreatedWithin(pair, hours)}
  /\ \A i, j \in 1..Len(rep.history) :
        i < j => rep.history[i].timestamp > rep.history[j].timestamp

\* C21: a getRateHistory call changes nothing but its own answer (no cache
\* entry, no history record, no provider request, no getExchangeRate call),
\* and the report it returns names the upper-case pair, the period
\* "<hours> hours", the number of records it lists, and lists exactly the
\* pair's records created within the last <hours> hours, newest first.
HistoryPassThrough ==
  [][report' # report =>
       /\ UNCHANGED <<now, cache, history, calls, pc, settled, apiResult, result, ops,
                      removed>>
       /\ Get(report').kind = "report" =>
            \E input \in RequestInputs, hours \in QueryHours :
               IsReportOf(Get(report').value, Uppercased(input), hours)]_vars

\* a report of the last day listed two of the four records of its pair,
\* beside a cache entry and records of the other pair
ReportOfTwoAmongFour ==
  /\ IsSome(report)
  /\ Get(report).kind = "report"
  /\ Get(report).value.period = "24 hours"
  /\ Get(report).value.dataPoints = 2
  /\ Cardinality(RowsOf(Get(report).value.baseCurrency,
                        Get(report).value.targetCurrency)) = 4
  /\ Cardinality(history) > 4
  /\ cache # {}

(***************************************************************************)
(* clearCache, under Spec.                                                 *)
(***************************************************************************)
\* the step deletes a cache entry and is no step of a call nor of the clock
DeletesEntry == cache' # cache /\ ops' = ops /\ now' = now

\* the call in slot r reads the cache in this step, the store answering
ReadsCache(r) == pc[r] = "getRate" /\ pc'[r] # "getRate" /\ seen'[r].failed = ""

\* C22: a clearCache step leaves no entry under the key of the upper-case
\* pair, keeps every entry under another key as it was, and changes neither
\* the history nor any call; and a getExchangeRate call that reads the cache
\* while its pair has no entry misses and sends the three provider requests.
ClearCacheRemovesOnePair ==
  [][/\ DeletesEntry =>
          \A input \in RequestInputs :
             clearCache(input) =>
               /\ \A e \in cache' : e.key # KeyOf(Uppercased(input))
               /\ \A e \in cache : e.key # KeyOf(Uppercased(input)) => e \in cache'
               /\ cache' \subseteq cache
               /\ UNCHANGED <<history, pc, result, cached, settled, apiResult>>
     /\ \A r \in Reqs :
          ReadsCache(r) /\ ~IsSome(EntryAt(KeyOf(Uppercased(arg[r])))) =>
            /\ pc'[r] = "providers"
            /\ seen'[r].entry = Some(None)
            /\ ops'[r] = ops[r] \o <<Op("cache.get", base(r), target(r), 0, "")>>
                                \o ProviderCalls(r)]_vars

\* the third call missed the cache for a pair whose fresh Quote was cached
\* and recorded earlier, no time having passed, while the entry of the other
\* pair was still in the cache
MissedAfterClearBesideOtherPair ==
  \E r \in Reqs :
     /\ seen[r].call = MaxCalls
     /\ Miss(r)
     /\ pc[r] = "providers"
     /\ now = 0
     /\ RowsOf(base(r), target(r)) # {}
     /\ \E e \in cache : e.key # KeyOf(Uppercased(arg[r]))

(***************************************************************************)
(* The order of the steps of one call, under Spec.                         *)
(***************************************************************************)
\* the call in slot r performs an operation of the kind in this step
Performs(r, name) ==
  \E i \in (Len(ops[r]) + 1)..Len(ops'[r]) : ops'[r][i].op = name

\* the aggregation of the call in slot r has returned, with success / failure
AggregationReturned(r, success) ==
  /\ IsSome(apiResult[r])
  /\ Get(apiResult[r]).success = success
  /\ \A p \in ProviderNames : IsSome(settled[r][p])

\* C23: a call sends its provider requests in the step in which its cache
\* read returns a miss, and a provider settles only for a call that missed;
\* a call writes the cache or appends to the history only once its
\* aggregation has returned success, the cache first; it reads the history
\* only once its aggregation has returned failure, having written nothing;
\* and the cache gains an entry or the history a record only by such a write.
StepsStrictlyOrdered ==
  [][\A r \in Reqs :
       /\ Performs(r, "provider") =>
            /\ Performs(r, "cache.get")
            /\ seen'[r].entry = Some(None)
            /\ OpsNamed(r, "provider") = {}
       /\ (\E p \in ProviderNames : IsSome(settled'[r][p]) /\ ~IsSome(settled[r][p])) =>
            /\ Miss(r)
            /\ OpsNamed(r, "provider") # {}
            /\ ~IsSome(apiResult[r])
       /\ Performs(r, "cache.set") =>
            /\ AggregationReturned(r, TRUE)
            /\ OpsNamed(r, "cache.set") = {}
            /\ OpsNamed(r, "history.insert") = {}
       /\ Performs(r, "history.insert") =>
            /\ AggregationReturned(r, TRUE)
            /\ OpsNamed(r, "cache.set") # {}
       /\ Performs(r, "history.latest") =>
            /\ AggregationReturned(r, FALSE)
            /\ OpsNamed(r, "cache.set") = {}
            /\ OpsNamed(r, "history.insert") = {}
       /\ (\E e \in cache' : e.writer = seen[r].call /\ \A o \in cache : o.writer # e.writer) =>
            Performs(r, "cache.set")
       /\ (\E row \in history' \ history : row.baseCurrency = base(r)) =>
            \E o \in Reqs : Performs(o, "history.insert")]_vars

\* a call ended with a fresh Quote of two providers after a cache read, three
\* provider requests, a cache write and a history append, in this order
FreshCallInOrder ==
  \E r \in Reqs :
     /\ Done(r)
     /\ result[r].kind = "quote"
     /\ Cardinality(Succeeded(r)) = 2
     /\ [i \in 1..Len(ops[r]) |-> ops[r][i].op]
          = <<"cache.get", "provider", "provider", "provider", "cache.set", "history.insert">>

(***************************************************************************)
(* The join of the provider calls, under SpecAggregation.                  *)
(***************************************************************************)
\* the provider calls of slot r that have not settled
PendingProviders(r) == {p \in ProviderNames : ~IsSome(settled[r][p])}

\* provider p's call settles with success in this step
SettlesWithSuccess(r, p) ==
  /\ ~IsSome(settled[r][p])
  /\ IsSome(settled'[r][p])
  /\ Get(settled'[r][p]).status = "fulfilled"
  /\ Get(settled'[r][p]).value.success

\* C24: while a provider call is pending fetchRateWithAggregation has no
\* result, whichever providers have succeeded already; the step that
\* produces the result finds all three calls settled; a provider that
\* succeeds, however many calls settled before it, does so before the result
\* exists; and the result, once there, is the mean and the label of every
\* provider that succeeded.
JoinAll ==
  /\ [](\A r \in Reqs :
          /\ PendingProviders(r) # {} => ~IsSome(apiResult[r])
          /\ IsSome(apiResult[r]) /\ Succeeded(r) # {} =>
               /\ Get(apiResult[r]).rate = MeanOfSucceeded(r)
               /\ Get(apiResult[r]).source = LabelOf[Succeeded(r)])
  /\ [][\A r \in Reqs :
          /\ apiResult'[r] # apiResult[r] =>
               /\ PendingProviders(r) = {}
               /\ settled'[r] = settled[r]
          /\ \A p \in ProviderNames :
               SettlesWithSuccess(r, p) => ~IsSome(apiResult[r]) /\ ~IsSome(apiResult'[r])]_vars

\* three providers succeeded and the result is the mean of the three, 1.12,
\* under the label of the three
AggregatedAllThree ==
  \E r \in Reqs :
     /\ pc[r] = "aggregated"
     /\ Succeeded(r) = ProviderNames
     /\ Get(apiResult[r]).rate = NumberOf(112 * Quantum)
     /\ Get(apiResult[r]).source = "aggregated(fixer+frankfurter+currencyapi)"

(***************************************************************************)
(* Termination of the calls, under SpecFair.                               *)
(***************************************************************************)
\* the call in slot r is running
Running(r) == pc[r] \notin {"idle", "done"}

\* C25: every getExchangeRate call that has started ends, with a Quote or
\* with an error, when each of its awaits resolves in the end; and a running
\* call always has a step of its own to take, whatever the other request is
\* doing.
EveryCallCompletes ==
  /\ \A r \in Reqs : Running(r) ~> (Done(r) /\ result[r].kind \in {"quote", "error"})
  /\ [](\A r \in Reqs : Running(r) => ENABLED CallSteps(r))

\* the call that started second has returned a Quote while the call that
\* started first is still waiting for its providers
SecondCallDoneBeforeFirst ==
  \E r, o \in Reqs :
     /\ seen[o].call = 1
     /\ pc[o] = "providers"
     /\ seen[r].call = 2
     /\ Done(r)
     /\ result[r].kind = "quote"

(***************************************************************************)
(* The fallback mode, under SpecFallback.                                  *)
(***************************************************************************)
\* the providers the call in slot r has sent a request to, in order
Asked(r) == [i \in 1..Len(ops[r]) |-> ops[r][i].source]

\* the timestamp provider p's client makes of the provider's reply
ProviderTimestamp(p, reply) ==
  CASE p = "fixer" -> Some(Get(reply.stamp) * 1000)
    [] p = "frankfurter" -> reply.stamp
    [] p = "currencyapi" -> None

\* C26: fetchRateWithFallback sends its requests one at a time in the order
\* fixer, frankfurter, currencyapi, each only after every provider before
\* it has answered and failed; it returns exactly when a provider succeeds
\* or the third has failed; with a success it returns that provider's own
\* response (the rate of the reply, the provider's name, the provider's
\* timestamp) and has asked no provider after it; and it returns
\* {success: false, rate: 0, source: "none"} only with three failures.
FallbackFirstSuccessWins ==
  \A r \in Reqs :
     pc[r] # "idle" =>
       /\ Len(Asked(r)) \in 1..Len(FallbackOrder)
       /\ \A i \in 1..Len(Asked(r)) : Asked(r)[i] = FallbackOrder[i]
       /\ \A i \in 1..(Len(Asked(r)) - 1) :
             /\ IsSome(settled[r][FallbackOrder[i]])
             /\ FallbackOrder[i] \notin Succeeded(r)
       /\ \A i \in (Len(Asked(r)) + 1)..Len(FallbackOrder) :
             /\ ~IsSome(settled[r][FallbackOrder[i]])
             /\ ~IsSome(replied[r][FallbackOrder[i]])
       /\ pc[r] # "returned" =>
             /\ pc[r] = Asked(r)[Len(Asked(r))]
             /\ ~IsSome(settled[r][pc[r]])
             /\ ~IsSome(apiResult[r])
       /\ pc[r] = "returned" =>
             LET last == Asked(r)[Len(Asked(r))]
             IN  /\ IsSome(settled[r][last])
                 /\ IsSome(apiResult[r])
                 /\ Succeeded(r) \subseteq {last}
                 /\ last \in Succeeded(r) =>
                      /\ Get(apiResult[r]).success
                      /\ Some(Get(apiResult[r]).rate) = Get(replied[r][last]).value
                      /\ Get(replied[r][last]).code = UpperCased(arg[r][2])
                      /\ Get(apiResult[r]).source = last
                      /\ Get(apiResult[r]).timestamp
                           = ProviderTimestamp(last, Get(replied[r][last]))
                 /\ last \notin Succeeded(r) =>
                      /\ Len(Asked(r)) = Len(FallbackOrder)
                      /\ Get(apiResult[r]) = ApiResponse(FALSE, Zero, "none", None)

\* the call returned frankfurter's response, 1.12, after fixer failed, and
\* sent currencyapi no request
FallbackReturnedSecond ==
  \E r \in Reqs :
     /\ pc[r] = "returned"
     /\ Asked(r) = <<"fixer", "frankfurter">>
     /\ Get(apiResult[r]).source = "frankfurter"
     /\ Get(apiResult[r]).rate = NumberOf(112 * Quantum)
     /\ ~IsSome(replied[r]["currencyapi"])

(***************************************************************************)
(* Requests for different pairs, under SpecPairs.                          *)
(***************************************************************************)
\* the pairs of the requests
Pairs == {Uppercased(PairInputs[r]) : r \in Reqs}

\* the call (or the conversion) in slot r takes a step
Acts(r) ==
  pc'[r] # pc[r] \/ settled'[r] # settled[r] \/ conversion'[r] # conversion[r]

\* what a pair has in the two stores
StoredFor(pair) == <<EntryAt(KeyOf(pair)), RowsOf(pair[1], pair[2])>>

\* what the call in slot r holds and has returned
Locals(r) ==
  <<pc[r], arg[r], cached[r], settled[r], apiResult[r], result[r], conversion[r], ops[r],
    seen[r].entry, seen[r].rows, seen[r].failed>>

\* the step changes nothing of a pair: neither its cache entry, nor its
\* history records, nor a call for it
Unaffected(pair) ==
  /\ StoredFor(pair)' = StoredFor(pair)
  /\ \A o \in Reqs : Uppercased(arg[o]) = pair => Locals(o)' = Locals(o)

\* C27: a step of a getExchangeRate call or of a conversion for one pair, and
\* a clearCache of one pair, change nothing of any other pair (its cache
\* entry, its history records, the calls for it and what they returned);
\* and what a call returns is made of its own pair's cache entry, of its own
\* pair's history records or of its own providers' answers alone: a Quote
\* from the cache is the entry under its pair's key, a stale Quote is the
\* latest of its pair's records, a fresh Quote is the mean of its providers,
\* a duplicate-key error comes with a record of its own pair, and the
\* failure to resolve with no record of its own pair.
PairsDoNotInterfere ==
  /\ [][/\ \A r \in Reqs :
             Acts(r) => \A pair \in Pairs \ {Uppercased(arg'[r])} : Unaffected(pair)
        /\ DeletesEntry =>
             \E cleared \in Pairs : \A pair \in Pairs \ {cleared} : Unaffected(pair)]_vars
  /\ [](\A r \in Reqs :
          LET pair == Uppercased(arg[r])
              q == result[r].quote
          IN  /\ Done(r) /\ result[r].kind = "quote" =>
                   /\ q.baseCurrency = pair[1]
                   /\ q.targetCurrency = pair[2]
                   /\ q.fromCache =>
                        /\ Hit(r)
                        /\ HitEntry(r).key = KeyOf(pair)
                        /\ q.rate = HitEntry(r).text[3]
                        /\ q.source = HitEntry(r).text[4]
                   /\ ~q.fromCache /\ IsStale(q.source) =>
                        \E row \in RowsSeen(r) :
                           /\ row.baseCurrency = pair[1]
                           /\ row.targetCurrency = pair[2]
                           /\ \A other \in RowsOf(pair[1], pair[2]) \cap RowsSeen(r) :
                                 other.createdAt <= row.createdAt
                           /\ q.rate = NumberOf(row.rate)
                           /\ q.source = row.source \o " (stale)"
                   /\ ~q.fromCache /\ ~IsStale(q.source) =>
                        /\ Succeeded(r) # {}
                        /\ q.rate = MeanOfSucceeded(r)
                        /\ q.source = LabelOf[Succeeded(r)]
              /\ Done(r) /\ result[r].kind = "error" =>
                   /\ result[r].message = DuplicateKeyError =>
                        \E row \in RowsOf(pair[1], pair[2]) : row.createdAt <= now
                   /\ result[r].message = ResolutionFailure(pair[1], pair[2]) =>
                        /\ IsSome(seen[r].rows)
                        /\ RowsSeen(r) = {}
                        /\ Succeeded(r) = {})

\* the second call, for USD/EUR, returned a fresh Quote and was recorded
\* while the conversion for EUR/USD that was running when it started has
\* written its cache entry and not yet its record
FreshQuoteBesideOtherPairsConversion ==
  /\ Done("r1")
  /\ seen["r1"].call = 2
  /\ seen["r1"].beside = {1}
  /\ result["r1"].kind = "quote"
  /\ ~result["r1"].quote.fromCache
  /\ RowsOf("USD", "EUR") # {}
  /\ pc["r2"] = "saveRate"
  /\ IsSome(conversion["r2"].amount)
  /\ IsSome(EntryAt(KeyOf(<<"EUR", "USD">>)))
  /\ IsSome(EntryAt(KeyOf(<<"USD", "EUR">>)))

(***************************************************************************)
(* clearAllCache, under SpecClear.                                         *)
(***************************************************************************)
\* C28: the keys command of clearAllCache reads the key of every entry the
\* cache holds and changes nothing; with an empty cache clearAllCache
\* returns then, having sent no del command, and otherwise it sends one; the
\* step in which it returns after its del command leaves no entry under the
\* keys it read, so none of the entries the cache held when it started
\* remains, whatever was written or has expired in between; and a step of
\* clearAllCache changes neither the history nor any call, adds nothing to
\* the cache, and deletes the entries under the keys it read and no other.
ClearAllRemovesWhatItFound ==
  [][clearing' # clearing =>
       /\ UNCHANGED <<history, pc, result, cached, settled, apiResult, ops, now>>
       /\ cache' \subseteq cache
       /\ \A e \in cache \ cache' : e.key \in clearing.keys
       /\ clearing.pc # "del" =>
             /\ cache' = cache
             /\ clearing'.outcome # "thrown" =>
                   /\ clearing'.keys = {e.key : e \in cache}
                   /\ cache = {} => clearing'.pc = "done" /\ clearing'.outcome = "returned"
                   /\ cache # {} => clearing'.pc = "del"
       /\ clearing.pc = "del" =>
             /\ clearing'.pc = "done"
             /\ clearing'.outcome = "returned" =>
                   \A e \in cache' : e.key \notin clearing.keys]_vars

\* clearAllCache returned having read and deleted the keys of both pairs,
\* both recorded in the history, and a later call has missed the cache and
\* written its entry
ClearedTwoBeforeLaterWrite ==
  /\ clearing.pc = "done"
  /\ clearing.outcome = "returned"
  /\ Cardinality(clearing.keys) = 2
  /\ Cardinality(history) >= 2
  /\ \E e \in cache : e.writer = MaxCalls /\ e.key \in clearing.keys

\* the records created more than `days` days ago
OlderThan(days) == {row \in history : now - row.createdAt > DaysMs(days)}

\* C29: a deleteOldRates call that returns removes the records, of whatever
\* pair, created more than <days> days ago and no other, and returns their
\* number, 0 when there is none; a call that throws removes nothing; and
\* the call changes nothing but the history and its own answer.
PurgeRemovesOlderOnly ==
  [][removed' # removed \/ history' # history =>
       /\ UNCHANGED <<now, cache, calls, pc, result, report, ops>>
       /\ Get(removed').kind = "error" => history' = history
       /\ Get(removed').kind = "count" =>
            \E days \in QueryDays :
               /\ history' = history \ OlderThan(days)
               /\ Get(removed').value = Cardinality(OlderThan(days))
               /\ Get(removed').value = Cardinality(history) - Cardinality(history')]_vars

\* a purge removed the four records older than a day, two of each pair, and
\* kept the records a day old and younger
PurgedFourKeptDayOld ==
  /\ IsSome(removed)
  /\ Get(removed).kind = "count"
  /\ Get(removed).value = 4
  /\ \A row \in history : row.createdAt >= HistoryNow - DayMs
  /\ \A i \in RequestInputs :
        \E row \in RowsOf(toUpperCase(i[1]), toUpperCase(i[2])) :
           row.createdAt = HistoryNow - DayMs

(***************************************************************************)
(* The stale fallback, under Spec.                                         *)
(***************************************************************************)
\* the step in which the call in slot r returns a stale Quote
StaleReturn(r) ==
  /\ pc[r] = "getLatestRate"
  /\ pc'[r] = "done"
  /\ result'[r].kind = "quote"

\* C30: the step in which a call returns a stale Quote changes neither the
\* cache nor the history and leaves the pair without a cache entry; the call
\* has missed the cache, has sent one request to each of the three
\* providers, all of which failed, and has written nothing; and as long as
\* a call that returned a stale Quote is the last one, its Quote is the
\* latest history record of its pair, so that the next call during the
\* outage finds the same stores and returns the same record.
StaleFallbackWritesNothing ==
  /\ [][\A r \in Reqs :
          StaleReturn(r) =>
            /\ cache' = cache
            /\ history' = history
            /\ ~IsSome(EntryAt(KeyOf(Uppercased(arg[r]))))
            /\ Miss(r)
            /\ Succeeded(r) = {}
            /\ \A p \in ProviderNames : Cardinality(RequestsTo(r, p)) = 1
            /\ OpsNamed(r, "cache.set") = {}
            /\ OpsNamed(r, "history.insert") = {}]_vars
  /\ [](\A r \in Reqs :
          Done(r) /\ result[r].kind = "quote" /\ IsStale(result[r].quote.source) =>
            /\ ~IsSome(EntryAt(KeyOf(Uppercased(arg[r]))))
            /\ IsSome(getLatestRate(base(r), target(r)))
            /\ result[r].quote.rate = Get(getLatestRate(base(r), target(r))).rate
            /\ result[r].quote.timestamp = Get(getLatestRate(base(r), target(r))).createdAt
            /\ result[r].quote.source
                 = Get(getLatestRate(base(r), target(r))).source \o " (stale)")

\* the third call returned the pair's only record as stale, a millisecond
\* after the record was made, having asked the three providers, and the
\* cache is empty
ThirdCallStaleCacheEmpty ==
  \E r \in Reqs :
     /\ seen[r].call = MaxCalls
     /\ Done(r)
     /\ result[r].kind = "quote"
     /\ IsStale(result[r].quote.source)
     /\ Cardinality(OpsNamed(r, "provider")) = 3
     /\ Cardinality(RowsOf(base(r), target(r))) = 1
     /\ now = 1
     /\ cache = {}

(***************************************************************************)
(* The cache and the history side by side, under Spec.                     *)
(***************************************************************************)
\* the history holds a record of entry e's pair and source with e's rate as
\* the rate column keeps it
Recorded(e) ==
  \E row \in history :
     /\ row.baseCurrency = e.written.baseCurrency
     /\ row.targetCurrency = e.written.targetCurrency
     /\ row.source = e.written.source
     /\ row.rate = rateColumn(e.written.rate)

\* C31 as stated: every cache entry has its record in the history, in every
\* state, between the two writes of a resolution and after a failed append
\* included.
EveryCachedRateRecorded == \A e \in cache : Recorded(e)

\* C31: every cache entry whose writing call has returned its Quote (its
\* history append has succeeded) has a record in the history with the same
\* pair and source and with the entry's rate rounded as the rate column
\* rounds it; the cache write comes first and leaves the history as it was,
\* and a history append that fails leaves both the entry and the history as
\* they were, so that between the two writes and after a failed append the
\* entry is in the cache without the call's record.
CachedRateRecordedOnceAnswered ==
  /\ [](\A e \in cache : IsSome(e.answer) => Recorded(e))
  /\ [][\A r \in Reqs :
          /\ pc[r] = "setex" /\ pc'[r] = "saveRate" =>
               /\ history' = history
               /\ \E e \in cache' : e.writer = seen[r].call /\ ~IsSome(e.answer)
          /\ pc[r] = "saveRate" /\ pc'[r] = "done" /\ result'[r].kind = "error" =>
               /\ history' = history
               /\ cache' = cache]_vars

\* an entry whose call has returned is recorded with another rate than the
\* entry's own, the rate column having rounded it
AnsweredEntryRecordedRounded ==
  \E e \in cache :
     /\ IsSome(e.answer)
     /\ Recorded(e)
     /\ NumberOf(rateColumn(e.written.rate)) # e.written.rate

(***************************************************************************)
(* A fresh resolution followed by a fallback, under SpecRoundTrip.         *)
(***************************************************************************)
\* the call in slot first returned a fresh Quote, and the call in slot next,
\* made for the same pair after the first had returned, missed the cache,
\* had no provider succeed and read the history; no other call is made, so
\* there is no other append for the pair between them
FallbackAfterFresh(first, next) ==
  /\ Done(first) /\ Done(next)
  /\ result[first].kind = "quote"
  /\ ~result[first].quote.fromCache
  /\ ~IsStale(result[first].quote.source)
  /\ seen[next].call > seen[first].call
  /\ seen[first].call \notin seen[next].beside
  /\ Uppercased(arg[next]) = Uppercased(arg[first])
  /\ Miss(next)
  /\ Succeeded(next) = {}
  /\ ~StoreFailed(next)

\* C32 as stated: the fallback returns the very rate the fresh call
\* returned, with its source followed by " (stale)".
FallbackReturnsFreshRate ==
  \A first \in Reqs, next \in Reqs :
     FallbackAfterFresh(first, next) =>
       /\ result[next].kind = "quote"
       /\ result[next].quote.rate = result[first].quote.rate
       /\ result[next].quote.source = result[first].quote.source \o " (stale)"

\* C32: if a call freshly resolves a pair to rate r with source s, and the
\* next call for that pair comes after the cache entry ran out or was
\* cleared, with every provider failing and no other append for the pair in
\* between, that next call returns r rounded as the rate column rounds it,
\* with source s followed by " (stale)", the fresh call's record being the
\* pair's latest.
FallbackReturnsRecordedRate ==
  \A first \in Reqs, next \in Reqs :
     FallbackAfterFresh(first, next) =>
       /\ result[next].kind = "quote"
       /\ result[next].quote.rate = NumberOf(rateColumn(result[first].quote.rate))
       /\ result[next].quote.source = result[first].quote.source \o " (stale)"
       /\ ~result[next].quote.fromCache

\* a fallback after a fresh resolution whose entry had run out, returning
\* another rate than the fresh call did
FallbackAfterExpiryOtherRate ==
  \E first \in Reqs, next \in Reqs :
     /\ FallbackAfterFresh(first, next)
     /\ now >= ttlSeconds * 1000
     /\ result[next].kind = "quote"
     /\ result[next].quote.rate # result[first].quote.rate

(***************************************************************************)
(* The " (stale)" marker, under Spec.                                      *)
(***************************************************************************)
\* a source without its last eight characters
Unmarked(src) == SubSeq(src, 1, Len(src) - 8)

\* the call in slot r went as far as the history fallback
ServedFromHistory(r) == OpsNamed(r, "history.latest") # {}

\* C33: no cache entry, in its text or as written, and no history record
\* has a source ending in " (stale)"; a Quote returned by getExchangeRate
\* has a source ending in " (stale)" exactly when the call was served from
\* the history fallback, and then what precedes the marker does not end in
\* " (stale)" itself.
StaleMarkerNeverStored ==
  /\ \A e \in cache :
        /\ ~IsStale(e.written.source)
        /\ ~IsStale(JSONparse(e.text).source)
  /\ \A row \in history : ~IsStale(row.source)
  /\ \A r \in Reqs :
        Done(r) /\ result[r].kind = "quote" =>
          /\ IsStale(result[r].quote.source) <=> ServedFromHistory(r)
          /\ IsStale(result[r].quote.source) =>
               /\ ~IsStale(Unmarked(result[r].quote.source))
               /\ \E row \in history : row.source = Unmarked(result[r].quote.source)

\* the last call returned a stale Quote while the cache held an entry of
\* another pair
StaleQuoteBesideCachedPair ==
  \E r \in Reqs :
     /\ seen[r].call = MaxCalls
     /\ Done(r)
     /\ result[r].kind = "quote"
     /\ IsStale(result[r].quote.source)
     /\ cache # {}

(***************************************************************************)
(* The order in which the provider promises settle, under                  *)
(* SpecAggregation.                                                        *)
(***************************************************************************)
\* what provider p's client makes of the reply p gave to the call in slot r
SettlementOfReply(r, p) == fetchFrom(p, arg[r][2], Get(replied[r][p]))

\* C34: the aggregation has returned only after the three promises settled,
\* in whichever of the six orders; what it returned is what the three
\* replies give when taken as fixer, frankfurter, currencyapi, whatever the
\* order in which they came: the mean of the rates of the providers that
\* succeeded, and a label naming them in that fixed order.
CompletionOrderIrrelevant ==
  \A r \in Reqs :
     pc[r] = "aggregated" =>
       /\ Len(completed[r]) = Len(Providers)
       /\ {completed[r][i] : i \in 1..Len(completed[r])} = ProviderNames
       /\ Get(apiResult[r])
            = Aggregate(successfulResults(SettlementOfReply(r, "fixer"),
                                          SettlementOfReply(r, "frankfurter"),
                                          SettlementOfReply(r, "currencyapi")), now)
       /\ Succeeded(r) # {} =>
            /\ Get(apiResult[r]).rate = MeanOfSucceeded(r)
            /\ Get(apiResult[r]).source = LabelOf[Succeeded(r)]

\* the three providers succeeded, currencyapi first and fixer last, and the
\* label names fixer first and currencyapi last
AggregatedInReverseOrder ==
  \E r \in Reqs :
     /\ pc[r] = "aggregated"
     /\ completed[r] = <<"currencyapi", "frankfurter", "fixer">>
     /\ Succeeded(r) = ProviderNames
     /\ Get(apiResult[r]).source = "aggregated(fixer+frankfurter+currencyapi)"

(***************************************************************************)
(* The provider requests of a call, under Spec.                            *)
(***************************************************************************)
\* the operations of the call in slot r on the cache or the history
StoreOps(r) == {i \in 1..Len(ops[r]) : ops[r][i].op # "provider"}

\* C35: a call that has missed the cache has sent exactly one request to
\* each of the three providers, each for the pair it was asked for in
\* upper case, right after its cache read and before any other operation
\* on the cache or the history; a call that found an entry has sent none.
OneRequestPerProviderOnMiss ==
  \A r \in Reqs :
     /\ Miss(r) =>
          /\ \A p \in ProviderNames : Cardinality(RequestsTo(r, p)) = 1
          /\ \A i \in OpsNamed(r, "provider") :
                /\ ops[r][i].base = toUpperCase(arg[r][1])
                /\ ops[r][i].target = toUpperCase(arg[r][2])
          /\ ops[r][1].op = "cache.get"
          /\ OpsNamed(r, "provider") = 2..(1 + Len(Providers))
          /\ \A i \in StoreOps(r) : i = 1 \/ i > 1 + Len(Providers)
     /\ Hit(r) => OpsNamed(r, "provider") = {}

\* a call given the pair in lower case missed, asked the three providers
\* for the pair in upper case, and then wrote the cache and the history
MissedAskedThreeThenWrote ==
  \E r \in Reqs :
     /\ Done(r)
     /\ Miss(r)
     /\ arg[r] = <<"usd", "eur">>
     /\ Cardinality(OpsNamed(r, "provider")) = 3
     /\ \A i \in OpsNamed(r, "provider") : ops[r][i].base = "USD"
     /\ OpsNamed(r, "cache.set") = {5}
     /\ OpsNamed(r, "history.insert") = {6}

(***************************************************************************)
(* The two writes of a resolution and their failures, under Spec.          *)
(***************************************************************************)
\* the entry the call in slot r found under its key
EntryHit(r) == Get(Get(seen[r].entry))

\* the call in slot r ends with an error at the step it takes from place
FailsAt(r, place) ==
  /\ pc[r] = place
  /\ pc'[r] = "done"
  /\ result'[r].kind = "error"

\* C36: in every call the cache write comes before the history append.  A
\* cache write that fails ends the call with the cache's error and with no
\* history append made or logged; a history append that fails after the
\* cache write ends the call with the history's error and leaves the cache
\* as it is, the entry included while it lives; and a later call that finds
\* an entry whose writer never returned gets the entry's rate and source as
\* a cache hit.
CacheWriteBeforeHistoryAppend ==
  /\ [](\A r \in Reqs :
          /\ \A i \in OpsNamed(r, "history.insert") :
                /\ \E j \in OpsNamed(r, "cache.set") : j < i
                /\ seen[r].failed # "cache.set"
          /\ (Done(r) /\ Hit(r) /\ ~StoreFailed(r) /\ ~IsSome(EntryHit(r).answer)) =>
                /\ result[r].kind = "quote"
                /\ result[r].quote.fromCache
                /\ result[r].quote.rate = EntryHit(r).written.rate
                /\ result[r].quote.source = EntryHit(r).written.source
                /\ OpsNamed(r, "provider") = {})
  /\ [][\A r \in Reqs :
          /\ FailsAt(r, "setex") =>
               /\ result'[r].message = CacheStoreError
               /\ history' = history
               /\ cache' = cache
               /\ \A i \in 1..Len(ops'[r]) : ops'[r][i].op # "history.insert"
          /\ FailsAt(r, "saveRate") =>
               /\ result'[r].message \in {HistoryStoreError, DuplicateKeyError}
               /\ history' = history
               /\ cache' = cache]_vars

\* a call whose history append failed left its entry, a later call returned
\* the entry's rate as a cache hit, and the history has no record
HitOnEntryOfFailedAppend ==
  \E r \in Reqs :
     /\ Done(r)
     /\ Hit(r)
     /\ ~IsSome(EntryHit(r).answer)
     /\ result[r].kind = "quote"
     /\ result[r].quote.fromCache
     /\ history = {}
     /\ \E e \in cache : e.writer < seen[r].call /\ ~IsSome(e.answer)

(***************************************************************************)
(* query() and the clients of the pool, under SpecLifecycle.               *)
(***************************************************************************)
\* the slots whose query holds a client of the pool numbered i
Holders(i) == {r \in Reqs : task[r].pc = "query" /\ task[r].held = i}

\* the query in slot r ends at this step
QueryEnds(r) == task[r].op = "query" /\ ~Free(r) /\ task'[r].pc = "done"

\* C37: every pool has as many clients checked out as there are queries
\* awaiting their statement on it, so none once those queries have ended,
\* however they ended; a query that ends after its statement, returning or
\* throwing, gives back the one client it took, and a query that ends
\* earlier, getPool() or pool.connect() having thrown, had taken none.
QueryReleasesItsClient ==
  /\ [](\A i \in 1..Len(heap.pools) :
          heap.pools[i].checkedOut = Cardinality(Holders(i)))
  /\ [][\A r \in Reqs :
          QueryEnds(r) =>
            IF task[r].pc = "query"
            THEN heap'.pools[task[r].held].checkedOut
                   = heap.pools[task[r].held].checkedOut - 1
            ELSE heap' = heap]_vars

\* the queries of both slots threw, their statements having failed, and no
\* client of any pool is checked out
BothStatementsFailedNoneHeld ==
  /\ \A r \in Reqs :
        /\ task[r].op = "query"
        /\ task[r].kind = "thrown"
        /\ task[r].message = HistoryStoreError
  /\ Len(heap.pools) > 0
  /\ \A i \in 1..Len(heap.pools) : heap.pools[i].checkedOut = 0

(***************************************************************************)
(* The life of the Redis client and of the pool, under SpecLifecycle.      *)
(***************************************************************************)
\* the slot r makes a call of op at this step, no call running in it
Calls(r, op) == Free(r) /\ task'[r] # task[r] /\ task'[r].op = op

\* the call in slot r has returned value
HasReturned(r, value) == task'[r].pc = "done" /\ task'[r].kind = "returned" /\ task'[r].value = value

\* the call in slot r has thrown message
HasThrown(r, message) == task'[r].pc = "done" /\ task'[r].kind = "thrown" /\ task'[r].message = message

\* C38 as stated, for the pool and for calls made one after the other:
\* getPool(), called while no other call is running, returns a pool only
\* if a connectDatabase() has completed on it.
GetPoolOnlyAfterConnectCompleted ==
  [][\A r \in Reqs :
       (Calls(r, "getPool") /\ (\A o \in Reqs : Free(o)) /\ task'[r].kind = "returned") =>
          heap.pools[Get(task'[r].value)].tested = "ok"]_vars

\* C38: getRedisClient() and getPool() return the module variable when it
\* is set and throw their 'not initialized' error when it is null.
\* redisClient is set by the connectRedis() that makes a client and by
\* nothing else, and is null again once a disconnectRedis() has had its
\* quit() resolve; pool is set by connectDatabase() when it makes the pool,
\* before its test connection is made, stays set when that connection
\* fails and connectDatabase() throws, and is null again once a
\* disconnectDatabase() has had its end() resolve.  A connect called while
\* the variable is set returns what it holds and makes nothing; a
\* disconnect called while it is null returns and changes nothing.  The
\* variable never holds a client that was quit or a pool that was ended.
ClientSetByConnectUntilDisconnect ==
  /\ [](/\ IsSome(redisClient) =>
             /\ Get(redisClient) \in 1..Len(heap.redis)
             /\ ~heap.redis[Get(redisClient)].quit
        /\ IsSome(pool) =>
             /\ Get(pool) \in 1..Len(heap.pools)
             /\ ~heap.pools[Get(pool)].ended)
  /\ [][\A r \in Reqs :
          /\ Calls(r, "getRedisClient") =>
               IF IsSome(redisClient) THEN HasReturned(r, redisClient)
               ELSE HasThrown(r, RedisNotInitialized)
          /\ Calls(r, "getPool") =>
               IF IsSome(pool) THEN HasReturned(r, pool)
               ELSE HasThrown(r, PoolNotInitialized)
          /\ Calls(r, "connectRedis") /\ IsSome(redisClient) =>
               HasReturned(r, redisClient) /\ heap' = heap /\ redisClient' = redisClient
          /\ Calls(r, "connectDatabase") /\ IsSome(pool) =>
               HasReturned(r, pool) /\ heap' = heap /\ pool' = pool
          /\ Calls(r, "disconnectRedis") /\ ~IsSome(redisClient) =>
               HasReturned(r, None) /\ heap' = heap /\ redisClient' = redisClient
          /\ Calls(r, "disconnectDatabase") /\ ~IsSome(pool) =>
               HasReturned(r, None) /\ heap' = heap /\ pool' = pool]_vars
  /\ [][/\ redisClient' # redisClient =>
             IF IsSome(redisClient')
             THEN /\ ~IsSome(redisClient)
                  /\ Len(heap'.redis) = Len(heap.redis) + 1
                  /\ redisClient' = Some(Len(heap'.redis))
                  /\ \E r \in Reqs : Calls(r, "connectRedis") /\ HasReturned(r, redisClient')
             ELSE \E r \in Reqs : task[r].pc = "quit" /\ HasReturned(r, None)
        /\ pool' # pool =>
             IF IsSome(pool')
             THEN /\ ~IsSome(pool)
                  /\ Len(heap'.pools) = Len(heap.pools) + 1
                  /\ pool' = Some(Len(heap'.pools))
                  /\ \E r \in Reqs : Calls(r, "connectDatabase") /\ task'[r].pc = "testConnect"
             ELSE \E r \in Reqs : task[r].pc = "end" /\ HasReturned(r, None)]_vars

\* connectDatabase() has thrown, its test connection having failed, and a
\* getPool() called afterwards has returned the pool it left
GotPoolOfFailedConnect ==
  \E r \in Reqs, o \in Reqs :
     /\ task[o].op = "connectDatabase"
     /\ task[o].kind = "thrown"
     /\ task[r].op = "getPool"
     /\ task[r].kind = "returned"
     /\ task[r].value = pool
     /\ IsSome(pool)
     /\ heap.pools[Get(pool)].tested = "failed"
     /\ Len(heap.pools) = 1

====
